---- MODULE Spec2Model ----
(***************************************************************************)
(* miniorm: a reflection-based ORM.  The model follows the three layers of *)
(* the library: the store reached through the Pgsql driver, the Dao layer  *)
(* (flat Dto records, SQL built from assigned fields) and the Domain layer *)
(* (entities, validation rules, nested hydration through foreign keys).    *)
(*                                                                         *)
(* Python values are modelled as strings: None is "None", the integer 0 is *)
(* "0", the boolean False is "False", identifiers handed out by the store  *)
(* are "1", "2", ...  An attribute that is not in vars(obj) is Absent.     *)
(***************************************************************************)
EXTENDS Integers, Sequences, FiniteSets, TLC

VARIABLES store, last, probe

vars == <<store, last, probe>>

-----------------------------------------------------------------------------
(* Bounds of the model *)

\* rows a table of the persistence specification may hold
MaxRows == 3
\* rows per table of the (static) store of the hydration specification
HRows == 1
\* the largest depth argument handed to encapsulate_nested
MaxDepth == 2
\* nested Domain.find activations the interpreter allows before RecursionError
RecursionLimit == 4

-----------------------------------------------------------------------------
(* Values *)

None == "None"
Absent == "<absent>"
Object == "<object>"

IdStr == <<"1", "2", "3", "4", "5", "6">>
Ids == {IdStr[i] : i \in 1..Len(IdStr)}

\* isinstance(v, (bool, int, float)): rendered unquoted in SQL text
IsNumber(v) == v \in Ids \cup {"0", "False", "True"}

\* Python truthiness of a scalar (if value: ...)
Truthy(v) == v \notin {None, Absent, "0", "False", ""}

-----------------------------------------------------------------------------
(* The declaration surface: the entity types of the application.           *)
(* A -> B -> C -> A are linked by type-style foreign keys; D is flat and   *)
(* declares a restriction for every validated operation; V carries the     *)
(* fields the validation rules are exercised on; the Dto of E declares a   *)
(* field tag that is not a column of its table; P and Q declare a nested   *)
(* list of T, Q also a foreign key to P, and T is flat; K points at B like  *)
(* A and drops its foreign-key scalars after hydration; R and U point at S *)
(* through 3-tuple declarations whose lookup field is code, R under the    *)
(* attribute its key names (owner_id, owner), U under another one          *)
(* (caller_id, member) and dropping its scalars after hydration.           *)

Types == {"A", "B", "C", "D", "E", "K", "P", "Q", "R", "S", "T", "U", "V"}

\* cls.foreign_keys, in declaration order; a type without the attribute has <<>>
foreign_keys(cls) ==
    CASE cls = "A" -> << [fk_field |-> "b_id", nested_attr |-> "b",
                          domain_class |-> "B", lookup_field |-> "id"] >>
      [] cls = "B" -> << [fk_field |-> "c_id", nested_attr |-> "c",
                          domain_class |-> "C", lookup_field |-> "id"] >>
      [] cls = "C" -> << [fk_field |-> "a_id", nested_attr |-> "a",
                          domain_class |-> "A", lookup_field |-> "id"] >>
      [] cls = "Q" -> << [fk_field |-> "p_id", nested_attr |-> "p",
                          domain_class |-> "P", lookup_field |-> "id"] >>
      [] cls = "K" -> << [fk_field |-> "b_id", nested_attr |-> "b",
                          domain_class |-> "B", lookup_field |-> "id"] >>
      [] cls = "R" -> << [fk_field |-> "owner_id", nested_attr |-> "owner",
                          domain_class |-> "S", lookup_field |-> "code"] >>
      [] cls = "U" -> << [fk_field |-> "caller_id", nested_attr |-> "member",
                          domain_class |-> "S", lookup_field |-> "code"] >>
      [] OTHER -> << >>

\* cls.clean_nested_keys (class default False)
clean_nested_keys(cls) == cls \in {"K", "U"}

\* the attributes a default-constructed Dto of the type declares
DtoFields(cls) ==
    CASE cls = "A" -> {"id", "name", "b_id"}
      [] cls = "B" -> {"id", "name", "c_id"}
      [] cls = "C" -> {"id", "name", "a_id"}
      [] cls = "V" -> {"id", "p", "q", "r"}
      [] cls = "E" -> {"id", "name", "tag"}
      [] cls = "Q" -> {"id", "name", "p_id"}
      [] cls = "T" -> {"id", "name", "p_id", "q_id"}
      [] cls = "K" -> {"id", "name", "b_id"}
      [] cls = "R" -> {"id", "name", "owner_id"}
      [] cls = "S" -> {"id", "name", "code"}
      [] cls = "U" -> {"id", "name", "caller_id"}
      [] OTHER -> {"id", "name"}

\* Pgsql.columns(table): the columns of the live schema
valid_columns(cls) == IF cls = "E" THEN {"id", "name"} ELSE DtoFields(cls)

\* ReflectionUtils.get_nested_list_metadata(cls): the @nested_list attributes
nested_lists(cls) ==
    CASE cls = "P" -> << [attr |-> "items", class |-> "T", foreign_key |-> "p_id"] >>
      [] cls = "Q" -> << [attr |-> "items", class |-> "T", foreign_key |-> "q_id"] >>
      [] OTHER -> << >>

\* names under which nested entities and nested lists are attached
NestedAttrs(cls) ==
    {foreign_keys(cls)[i].nested_attr : i \in 1..Len(foreign_keys(cls))}
        \cup {nested_lists(cls)[i].attr : i \in 1..Len(nested_lists(cls))}

NoRule == [required |-> << >>, required_any |-> << >>, mutually_exclusive |-> << >>]

\* cls.restrictions.get(operation); NoRule stands for "no rule declared"
restrictions(cls, operation) ==
    IF cls # "D" THEN NoRule
    ELSE CASE operation = "find" ->
                [NoRule EXCEPT !.mutually_exclusive = << <<"id", "name">> >>]
           [] operation = "find_all" ->
                [NoRule EXCEPT !.required_any = <<"id", "name">>]
           [] operation = "save" ->
                [NoRule EXCEPT !.required = <<"name">>]
           [] operation = "update" ->
                [NoRule EXCEPT !.required = <<"id">>]
           [] operation = "persist" ->
                [NoRule EXCEPT !.required_any = <<"id", "name">>]
           [] OTHER -> NoRule

-----------------------------------------------------------------------------
(* Dto: the flat record *)

\* a default-constructed Dto: every declared field None (Dto.__init__ sets id)
DtoNew(cls) == [c \in DtoFields(cls) |-> None]

ColumnKeysTruthy(dto, assigned_only) == {k \in DOMAIN dto : assigned_only => Truthy(dto[k])}

\* the field names Dto.columns keeps
ColumnKeys(dto, assigned_only) == {k \in DOMAIN dto : assigned_only => dto[k] # None}

\* Dto.columns(assigned_only): name -> value, None values dropped when assigned_only
columns(dto, assigned_only) == [k \in ColumnKeys(dto, assigned_only) |-> dto[k]]

\* ReflectionUtils.sync_with_dict: every key of the mapping becomes an attribute
sync_with_dict(to_obj, dict) ==
    [k \in DOMAIN to_obj \cup DOMAIN dict |-> IF k \in DOMAIN dict THEN dict[k] ELSE to_obj[k]]

-----------------------------------------------------------------------------
(* SQL literals and the store behind the driver *)

Null == [kind |-> "null", text |-> ""]

\* the literal find_all and save render inline: numbers unquoted, the rest quoted
FilterLiteral(v) == IF IsNumber(v) THEN [kind |-> "raw", text |-> v]
                    ELSE [kind |-> "quoted", text |-> v]

\* sql_utils.sql_value: None -> null, str quoted, numbers raw
sql_value(v) ==
    IF v = None THEN Null
    ELSE IF IsNumber(v) THEN [kind |-> "raw", text |-> v]
    ELSE [kind |-> "quoted", text |-> v]

\* the value a column takes when the store evaluates a literal
LitValue(lit) == IF lit.kind = "null" THEN None ELSE lit.text

\* SQL equality: a NULL column equals nothing
SqlEq(colval, lit) == colval # None /\ lit.kind # "null" /\ colval = lit.text

\* a call on the driver: Pgsql.columns(table) or Pgsql.execute(query); where holds
\* the columns the WHERE clause of the statement tests
Event(call, stmt, table, where) == [call |-> call, stmt |-> stmt, table |-> table, where |-> where]

\* how many statements of a kind a sequence of driver calls holds
Statements(ev, stmt) == Cardinality({i \in 1..Len(ev) : ev[i].stmt = stmt})

\* result = f(...); <the code that uses result>
With(v, Op(_)) == Op(v)

\* the identifier the store assigns to the next inserted row of a table
NewId(rows) == IdStr[Len(rows) + 1]

-----------------------------------------------------------------------------
(* Dao: the access layer.  Every operator returns a record with             *)
(*   err: "ok" or the name of the exception raised,  ev: the driver calls.  *)

\* the WHERE predicates find_all builds: assigned fields that are schema columns
Filters(cls, dto) ==
    [k \in {c \in ColumnKeys(dto, TRUE) : c \in valid_columns(cls) /\ dto[c] # None} |->
        FilterLiteral(dto[k])]

RowMatches(row, filters) == \A k \in DOMAIN filters : SqlEq(row[k], filters[k])

\* the rows a SELECT returns, mapped to Dtos: instance.sync(row) on a fresh Dto
MapRows(cls, rows, select_columns) ==
    [i \in 1..Len(rows) |-> sync_with_dict(DtoNew(cls), [k \in select_columns |-> rows[i][k]])]

\* the conditions the driver can be in: working, its configuration missing,
\* the server unreachable, every statement failing, every writing statement
\* failing, the rows it returns not populating a Dto
Drivers == {"up", "config", "connect", "execute", "write", "map"}

\* the condition of the driver a store is reached through
Driver(st) == IF "driver" \in DOMAIN st THEN st["driver"] ELSE "up"

\* Pgsql(): reads the connection settings of the environment
Pgsql_init(st) == IF Driver(st) = "config" THEN "ConfigurationError" ELSE "ok"

\* Pgsql.connect()
Pgsql_connect(st) == IF Driver(st) = "connect" THEN "ConnectionError" ELSE "ok"

\* Pgsql.columns(table): connect, then read the schema
Pgsql_columns(st) == Pgsql_connect(st)

\* Pgsql.execute(query): connect, then run the statement
Pgsql_execute(st, stmt) ==
    IF Pgsql_connect(st) # "ok" THEN "ConnectionError"
    ELSE IF Driver(st) = "execute" \/ (Driver(st) = "write" /\ stmt \in {"INSERT", "UPDATE"})
    THEN "QueryExecutionError"
    ELSE "ok"

\* the rows a SELECT with the filters of dto returns
Selected(st, cls, dto) == SelectSeq(st[cls], LAMBDA row : RowMatches(row, Filters(cls, dto)))

\* Dao.find_all(dto): SELECT <columns> FROM <table> [WHERE ...]; a failure of
\* db.columns reaches the handler before query is bound
Dao_find_all(st, cls, dto) ==
    IF Pgsql_init(st) # "ok"
    THEN [err |-> "ConnectionError", results |-> << >>, ev |-> << >>]
    ELSE IF Pgsql_columns(st) # "ok"
    THEN [err |-> "UnboundLocalError", results |-> << >>,
          ev |-> << Event("columns", "SCHEMA", cls, {}) >>]
    ELSE IF Pgsql_execute(st, "SELECT") # "ok"
    THEN [err |-> "QueryExecutionError", results |-> << >>,
          ev |-> << Event("columns", "SCHEMA", cls, {}),
                   Event("execute", "SELECT", cls, DOMAIN Filters(cls, dto)) >>]
    ELSE [err |-> IF Driver(st) = "map" /\ Selected(st, cls, dto) # << >>
                  THEN "DtoMappingError" ELSE "ok",
          results |-> IF Driver(st) = "map" THEN << >>
                      ELSE MapRows(cls, Selected(st, cls, dto),
                                   {k \in ColumnKeys(dto, FALSE) : k \in valid_columns(cls)}),
          ev |-> << Event("columns", "SCHEMA", cls, {}),
                   Event("execute", "SELECT", cls, DOMAIN Filters(cls, dto)) >>]

\* Dao.list(): SELECT <columns> FROM <table>; each row is mapped through
\* new_instance(self.model()), whose argument is a Dto and not a class path,
\* and the DtoMappingError of the loop is caught by the handlers around it
Dao_list(st, cls) ==
    IF Pgsql_init(st) # "ok"
    THEN [err |-> "ConnectionError", cause |-> "ConfigurationError", results |-> << >>,
          ev |-> << >>]
    ELSE IF Pgsql_columns(st) # "ok"
    THEN [err |-> "UnboundLocalError", cause |-> "ConnectionError", results |-> << >>,
          ev |-> << Event("columns", "SCHEMA", cls, {}) >>]
    ELSE IF Pgsql_execute(st, "SELECT") # "ok"
    THEN [err |-> "QueryExecutionError", cause |-> "QueryExecutionError", results |-> << >>,
          ev |-> << Event("columns", "SCHEMA", cls, {}), Event("execute", "SELECT", cls, {}) >>]
    ELSE IF st[cls] # << >>
    THEN [err |-> "QueryExecutionError", cause |-> "DtoMappingError", results |-> << >>,
          ev |-> << Event("columns", "SCHEMA", cls, {}), Event("execute", "SELECT", cls, {}) >>]
    ELSE [err |-> "ok", cause |-> "", results |-> << >>,
          ev |-> << Event("columns", "SCHEMA", cls, {}), Event("execute", "SELECT", cls, {}) >>]

\* the names a placeholder or a parameter can carry
Names == {"a", "b", "c"}

\* the <name> placeholder of a query template, and what it is replaced with
Placeholder(key) == "<" \o key \o ">"

PyFormat(key) == "%(" \o key \o ")s"

\* query.replace('<key>', '%(key)s') for every key of params; a query is a
\* sequence of tokens
Replaced(query, params) ==
    [i \in 1..Len(query) |->
        IF \E k \in params : query[i] = Placeholder(k)
        THEN PyFormat(CHOOSE k \in params : query[i] = Placeholder(k))
        ELSE query[i]]

RECURSIVE Reversed(_)

Reversed(seq) == IF seq = << >> THEN << >> ELSE Append(Reversed(Tail(seq)), Head(seq))

UnfilledLastFirst(query) ==
    Reversed(SelectSeq(query, LAMBDA t : \E k \in Names : t = Placeholder(k)))

\* re.findall(r'<(\w+)>', query): the placeholders left, in the order of the text
Unfilled(query) == SelectSeq(query, LAMBDA t : \E k \in Names : t = Placeholder(k))

\* query.replace('= null', 'IS NULL').replace('=null', 'IS NULL')
NullNormalized(query) ==
    [i \in 1..Len(query) |-> IF query[i] \in {"= null", "=null"} THEN "IS NULL" ELSE query[i]]

\* Dao.joint_find(query, dto_model, **params): the statement is opaque, the
\* rows it returns are those of the table of dto_model
Dao_joint_find(st, cls, query, params) ==
    IF Unfilled(Replaced(query, params)) # << >>
    THEN [err |-> "MissingParameterError",
          param_name |-> CHOOSE k \in Names :
                             Placeholder(k) = Unfilled(Replaced(query, params))[1],
          results |-> << >>, ev |-> << >>]
    ELSE IF Pgsql_init(st) # "ok"
    THEN [err |-> "ConnectionError", param_name |-> "", results |-> << >>, ev |-> << >>]
    ELSE IF Pgsql_execute(st, "QUERY") # "ok"
    THEN [err |-> "QueryExecutionError", param_name |-> "", results |-> << >>,
          ev |-> << [call |-> "execute", stmt |-> "QUERY", table |-> cls, where |-> params,
                    query |-> NullNormalized(Replaced(query, params))] >>]
    ELSE [err |-> IF Driver(st) = "map" /\ st[cls] # << >> THEN "DtoMappingError" ELSE "ok",
          param_name |-> "",
          results |-> IF Driver(st) = "map" THEN << >>
                      ELSE MapRows(cls, st[cls], valid_columns(cls)),
          ev |-> << [call |-> "execute", stmt |-> "QUERY", table |-> cls, where |-> params,
                    query |-> NullNormalized(Replaced(query, params))] >>]

\* what Dao.find_one re-raises: a DaoError as it is, anything else wrapped
Reraised(err) == IF err = "UnboundLocalError" THEN "QueryExecutionError" ELSE err

find_one_first(st, cls, dto, raise_if_not_found) ==
    With(Dao_find_all(st, cls, dto), LAMBDA r :
         IF r.err # "ok" THEN [err |-> Reraised(r.err), obj |-> << >>, ev |-> r.ev]
         ELSE IF Len(r.results) = 0
         THEN [err |-> IF raise_if_not_found THEN "RegisterNotFoundError" ELSE "ok",
               obj |-> << >>, ev |-> r.ev]
         ELSE [err |-> "ok", obj |-> << r.results[1] >>, ev |-> r.ev])

\* Dao.find_one(dto, raise_if_not_found); obj is << >> for None
Dao_find_one(st, cls, dto, raise_if_not_found) ==
    With(Dao_find_all(st, cls, dto), LAMBDA r :
         IF r.err # "ok" THEN [err |-> Reraised(r.err), obj |-> << >>, ev |-> r.ev]
         ELSE IF Len(r.results) = 0
         THEN [err |-> IF raise_if_not_found THEN "RegisterNotFoundError" ELSE "ok",
               obj |-> << >>, ev |-> r.ev]
         ELSE IF Len(r.results) > 1
         THEN [err |-> "ok", obj |-> << >>, ev |-> r.ev]
         ELSE [err |-> "ok", obj |-> << r.results[1] >>, ev |-> r.ev])

\* Dao.exists(dto)
Dao_exists(st, cls, dto) ==
    IF ColumnKeys(dto, TRUE) = {}
    THEN [err |-> "DtoMissingAssignedFieldsError", found |-> FALSE, ev |-> << >>]
    ELSE With(Dao_find_one(st, cls, dto, FALSE), LAMBDA r :
              [err |-> r.err, found |-> r.obj # << >>, ev |-> r.ev])

\* the row an INSERT of the assigned non-id columns creates
InsertedRow(cls, dto, id) ==
    [c \in valid_columns(cls) |->
        IF c = "id" THEN id
        ELSE IF c \in DOMAIN dto /\ dto[c] # None THEN LitValue(FilterLiteral(dto[c]))
        ELSE None]

Dao_save_forgets_id(st, cls, dto) ==
    IF Pgsql_init(st) # "ok"
    THEN [err |-> "ConnectionError", dto |-> dto, st |-> st, ev |-> << >>]
    ELSE IF Pgsql_execute(st, "INSERT") # "ok"
    THEN [err |-> "QueryExecutionError", dto |-> dto, st |-> st,
          ev |-> << Event("execute", "INSERT", cls, {}) >>]
    ELSE IF {k \in ColumnKeys(dto, FALSE) : k # "id" /\ dto[k] # None} = {}
    THEN [err |-> "QueryExecutionError", dto |-> dto, st |-> st,
          ev |-> << Event("execute", "INSERT", cls, {}) >>]
    ELSE [err |-> "ok",
          dto |-> dto,
          st |-> [st EXCEPT ![cls] = Append(@, InsertedRow(cls, dto, NewId(st[cls])))],
          ev |-> << Event("execute", "INSERT", cls, {}) >>]

\* Dao.save(dto): INSERT ... RETURNING id; the returned id is written into dto
Dao_save(st, cls, dto) ==
    IF Pgsql_init(st) # "ok"
    THEN [err |-> "ConnectionError", dto |-> dto, st |-> st, ev |-> << >>]
    ELSE IF Pgsql_execute(st, "INSERT") # "ok"
    THEN [err |-> "QueryExecutionError", dto |-> dto, st |-> st,
          ev |-> << Event("execute", "INSERT", cls, {}) >>]
    ELSE IF {k \in ColumnKeys(dto, FALSE) : k # "id" /\ dto[k] # None} = {}
    THEN \* INSERT INTO t () VALUES (): rejected by the store
         [err |-> "QueryExecutionError", dto |-> dto, st |-> st,
          ev |-> << Event("execute", "INSERT", cls, {}) >>]
    ELSE [err |-> "ok",
          dto |-> [dto EXCEPT !["id"] = NewId(st[cls])],
          st |-> [st EXCEPT ![cls] = Append(@, InsertedRow(cls, dto, NewId(st[cls])))],
          ev |-> << Event("execute", "INSERT", cls, {}) >>]

SetClausesAssigned(dto) == [k \in ColumnKeys(dto, TRUE) \ {"id"} |-> sql_value(dto[k])]

\* the SET clauses of Dao.update: every column of the Dto but id
SetClauses(dto) == [k \in ColumnKeys(dto, FALSE) \ {"id"} |-> sql_value(dto[k])]

UpdatedRow(row, set) == [c \in DOMAIN row |-> IF c \in DOMAIN set THEN LitValue(set[c]) ELSE row[c]]

\* Dao.update(dto): UPDATE <table> SET <every non-id column> WHERE id = <id>
Dao_update(st, cls, dto) ==
    IF dto["id"] = None
    THEN [err |-> "DtoMissingAssignedFieldsError", st |-> st, ev |-> << >>]
    ELSE IF Pgsql_init(st) # "ok"
    THEN [err |-> "ConnectionError", st |-> st, ev |-> << >>]
    ELSE IF Pgsql_execute(st, "UPDATE") # "ok"
    THEN [err |-> "QueryExecutionError", st |-> st,
          ev |-> << Event("execute", "UPDATE", cls, {"id"}) >>]
    ELSE [err |-> "ok",
          st |-> [st EXCEPT ![cls] =
                    [i \in 1..Len(@) |->
                        IF SqlEq(@[i]["id"], sql_value(dto["id"]))
                        THEN UpdatedRow(@[i], SetClauses(dto)) ELSE @[i]]],
          ev |-> << Event("execute", "UPDATE", cls, {"id"}) >>]

-----------------------------------------------------------------------------
(* Domain: entities.  An entity is [cls, attrs, nested]: attrs maps every   *)
(* scalar attribute name to its value (Absent when not in vars(self)),      *)
(* nested maps a nested attribute name to << >> or << the attached entity >>*)

\* hasattr(cls, 'foreign_keys')
has_foreign_keys(cls) == Len(foreign_keys(cls)) > 0

\* Domain(**kwargs) with plain values: join() sets every keyword as an attribute
New(cls, kwargs) ==
    [cls |-> cls,
     attrs |-> [c \in DtoFields(cls) |-> IF c \in DOMAIN kwargs THEN kwargs[c] ELSE Absent],
     nested |-> [n \in NestedAttrs(cls) |-> << >>]]

\* getattr(domain, field, None)
GetAttr(ent, field) ==
    IF field \in DOMAIN ent.attrs
    THEN (IF ent.attrs[field] = Absent THEN None ELSE ent.attrs[field])
    ELSE IF field \in DOMAIN ent.nested /\ ent.nested[field] # << >> THEN Object
    ELSE None

Violation(kind, fields) == [kind |-> kind, fields |-> fields]

MissingOfFalsy(ent, fields) == SelectSeq(fields, LAMBDA f : ~Truthy(GetAttr(ent, f)))

\* the fields of a list whose value on the entity is None (or that it lacks)
MissingOf(ent, fields) == SelectSeq(fields, LAMBDA f : GetAttr(ent, f) = None)

\* the fields of a list that hold a value
FilledOf(ent, fields) == SelectSeq(fields, LAMBDA f : GetAttr(ent, f) # None)

\* the first group of a list with more than one non-None member, 0 when none
FirstExclusive(ent, groups) ==
    IF \A i \in 1..Len(groups) : Len(FilledOf(ent, groups[i])) <= 1 THEN 0
    ELSE CHOOSE i \in 1..Len(groups) :
            /\ Len(FilledOf(ent, groups[i])) > 1
            /\ \A j \in 1..(i - 1) : Len(FilledOf(ent, groups[j])) <= 1

\* the entries validate collects in "missing": one per missing required field,
\* then one combined entry when a non-empty required_any has no member set
Missing(ent, rule) ==
    [i \in 1..Len(MissingOf(ent, rule.required)) |->
        Violation("missing", << MissingOf(ent, rule.required)[i] >>)]
    \o (IF Len(rule.required_any) > 0 /\ Len(FilledOf(ent, rule.required_any)) = 0
        THEN << Violation("any of", rule.required_any) >>
        ELSE << >>)

ValidateRule_missing_first(ent, rule) ==
    IF rule = NoRule THEN [err |-> "ok", missing_fields |-> << >>]
    ELSE IF Len(Missing(ent, rule)) > 0
    THEN [err |-> "ValidationError", missing_fields |-> Missing(ent, rule)]
    ELSE IF FirstExclusive(ent, rule.mutually_exclusive) # 0
    THEN [err |-> "ValidationError",
          missing_fields |-> << Violation("mutually exclusive violation",
              rule.mutually_exclusive[FirstExclusive(ent, rule.mutually_exclusive)]) >>]
    ELSE [err |-> "ok", missing_fields |-> << >>]

\* ValidationObserver.validate(domain, operation) for the rule of the operation
ValidateRule(ent, rule) ==
    IF rule = NoRule THEN [err |-> "ok", missing_fields |-> << >>]
    ELSE IF FirstExclusive(ent, rule.mutually_exclusive) # 0
    THEN [err |-> "ValidationError",
          missing_fields |-> << Violation("mutually exclusive violation",
              rule.mutually_exclusive[FirstExclusive(ent, rule.mutually_exclusive)]) >>]
    ELSE IF Len(Missing(ent, rule)) > 0
    THEN [err |-> "ValidationError", missing_fields |-> Missing(ent, rule)]
    ELSE [err |-> "ok", missing_fields |-> << >>]

validate_as_wrapper(ent, operation) == ValidateRule(ent, restrictions(ent.cls, "wrapper"))

\* the @validate decorator: the rule is looked up under the name of the operation
validate(ent, operation) == ValidateRule(ent, restrictions(ent.cls, operation))

\* the outcome of a call on an entity
Res(ent, err, ev) == [ent |-> ent, err |-> err, ev |-> ev]

\* a keyword argument: a plain value, or a Domain instance in domain
Arg(key, plain) == [key |-> key, plain |-> plain, domain |-> << >>]

ArgDomain(key, value) == [key |-> key, plain |-> Object, domain |-> << value >>]

\* the keys of cls.foreign_keys
FkFields(cls) == {foreign_keys(cls)[i].fk_field : i \in 1..Len(foreign_keys(cls))}

\* setattr(self, key, v) for a scalar attribute
SetAttr(ent, key, v) == IF key \in DOMAIN ent.attrs THEN [ent EXCEPT !.attrs[key] = v] ELSE ent

\* setattr(self, key, value) for a Domain value
SetDomain(ent, key, value) ==
    IF key \in DOMAIN ent.nested THEN [ent EXCEPT !.nested[key] = << value >>]
    ELSE SetAttr(ent, key, Object)

\* one turn of the loop of Domain.join: a Domain value sets <key>_id to its id
\* and is attached when key is a key of foreign_keys; a plain value is set
JoinOne(ent, arg) ==
    IF arg.domain = << >> THEN Res(SetAttr(ent, arg.key, arg.plain), "ok", << >>)
    ELSE IF arg.domain[1].attrs["id"] = Absent THEN Res(ent, "AttributeError", << >>)
    ELSE IF arg.key \in FkFields(ent.cls)
    THEN Res(SetDomain(SetAttr(ent, arg.key \o "_id", arg.domain[1].attrs["id"]),
                       arg.key, arg.domain[1]), "ok", << >>)
    ELSE Res(SetAttr(ent, arg.key \o "_id", arg.domain[1].attrs["id"]), "ok", << >>)

RECURSIVE join(_, _, _)

\* Domain.join(**kwargs), from the i-th keyword on
join(ent, kwargs, i) ==
    IF i > Len(kwargs) THEN Res(ent, "ok", << >>)
    ELSE With(JoinOne(ent, kwargs[i]), LAMBDA r :
              IF r.err # "ok" THEN r ELSE join(r.ent, kwargs, i + 1))

\* Domain.__init__(**kwargs): join(**kwargs); the loop that follows it acts on
\* tuple-style foreign keys only
Domain_init(cls, kwargs) == join(New(cls, << >>), kwargs, 1)

\* fk_field.replace('_id', ''): the attribute as_dto reads the nested entity from
StripId(fk_field) ==
    CASE fk_field = "b_id" -> "b"
      [] fk_field = "c_id" -> "c"
      [] fk_field = "a_id" -> "a"
      [] fk_field = "p_id" -> "p"
      [] fk_field = "owner_id" -> "owner"
      [] fk_field = "caller_id" -> "caller"
      [] OTHER -> fk_field

\* as_dto, first half: every attached foreign-key entity with an id overwrites
\* the *_id scalar of self
ResolveForeignKeys(ent) ==
    LET fks == foreign_keys(ent.cls)
        Has(c) == /\ StripId(c) \in DOMAIN ent.nested
                  /\ ent.nested[StripId(c)] # << >>
                  /\ ent.nested[StripId(c)][1].attrs["id"] # Absent
    IN  [ent EXCEPT !.attrs =
            [c \in DOMAIN ent.attrs |->
                IF (\E i \in 1..Len(fks) : fks[i].fk_field = c) /\ Has(c)
                THEN ent.nested[StripId(c)][1].attrs["id"]
                ELSE ent.attrs[c]]]

\* as_dto, second half: a fresh Dto receiving the attributes of self it declares
as_dto(ent) ==
    [c \in DtoFields(ent.cls) |->
        IF /\ c \in DOMAIN ent.attrs
           /\ \A i \in 1..Len(nested_lists(ent.cls)) : nested_lists(ent.cls)[i].attr # c
           /\ ResolveForeignKeys(ent).attrs[c] # Absent
        THEN ResolveForeignKeys(ent).attrs[c] ELSE None]

\* Domain.sync(obj): every attribute of the source is copied onto self
sync(ent, obj) == [ent EXCEPT !.attrs = sync_with_dict(ent.attrs, obj)]

\* Domain.cleanup_foreign_keys: delattr of every declared *_id
cleanup_foreign_keys(ent) ==
    [ent EXCEPT !.attrs =
        [c \in DOMAIN ent.attrs |->
            IF \E i \in 1..Len(foreign_keys(ent.cls)) : foreign_keys(ent.cls)[i].fk_field = c
            THEN Absent ELSE ent.attrs[c]]]

RECURSIVE Domain_find(_, _, _)
RECURSIVE encapsulate_nested(_, _, _, _)
RECURSIVE HydrateForeignKeys(_, _, _, _, _)
RECURSIVE HydrateNestedLists(_, _, _)
RECURSIVE HydratePass(_, _, _)
RECURSIVE encapsulate(_, _, _)
RECURSIVE Domain_find_all(_, _)

\* the loop of encapsulate_nested over the declared foreign keys, from the i-th on
HydrateForeignKeys(ent, i, depth, st, nest) ==
    LET fks == foreign_keys(ent.cls)
    IN  IF i > Len(fks) THEN Res(ent, "ok", << >>)
        ELSE IF GetAttr(ent, fks[i].fk_field) = None
        THEN HydrateForeignKeys(ent, i + 1, depth, st, nest)
        ELSE With(Domain_find(New(fks[i].domain_class,
                                  [k \in {fks[i].lookup_field} |-> GetAttr(ent, fks[i].fk_field)]),
                              st, nest + 1), LAMBDA f :
             IF f.err # "ok" THEN Res(ent, f.err, f.ev)
             ELSE With(encapsulate_nested(f.ent, depth - 1, st, nest + 1), LAMBDA g :
             IF g.err # "ok" THEN Res(ent, g.err, f.ev \o g.ev)
             ELSE With(HydrateForeignKeys([ent EXCEPT !.nested[fks[i].nested_attr] = << g.ent >>],
                                          i + 1, depth, st, nest), LAMBDA rest :
             Res(rest.ent, rest.err, f.ev \o g.ev \o rest.ev))))

\* the loop of encapsulate_nested over the @nested_list attributes, from the
\* i-th on: target(**{foreign_key: self.id}).find_all() is attached
HydrateNestedLists(ent, i, st) ==
    IF i > Len(nested_lists(ent.cls)) THEN Res(ent, "ok", << >>)
    ELSE IF ent.attrs["id"] = Absent THEN Res(ent, "AttributeError", << >>)
    ELSE With(Domain_find_all(New(nested_lists(ent.cls)[i].class,
                                  [k \in {nested_lists(ent.cls)[i].foreign_key} |->
                                      ent.attrs["id"]]), st), LAMBDA f :
         IF f.err # "ok" THEN Res(ent, f.err, f.ev)
         ELSE With(HydrateNestedLists(
                       [ent EXCEPT !.nested[nested_lists(ent.cls)[i].attr] = << f.res >>],
                       i + 1, st), LAMBDA rest :
                   Res(rest.ent, rest.err, f.ev \o rest.ev)))

\* Domain.encapsulate_nested(depth)
encapsulate_nested(ent, depth, st, nest) ==
    IF depth <= 0 THEN Res(ent, "ok", << >>)
    ELSE IF ~has_foreign_keys(ent.cls) THEN Res(ent, "ok", << >>)
    ELSE With(HydrateForeignKeys(ent, 1, depth, st, nest), LAMBDA h :
         IF h.err # "ok" THEN h
         ELSE With(HydrateNestedLists(h.ent, 1, st), LAMBDA n :
              IF n.err # "ok" THEN Res(n.ent, n.err, h.ev \o n.ev)
              ELSE IF clean_nested_keys(ent.cls)
              THEN Res(cleanup_foreign_keys(n.ent), "ok", h.ev \o n.ev)
              ELSE Res(n.ent, "ok", h.ev \o n.ev)))

\* Domain.find(), behind @validate; nest counts the enclosing find activations,
\* the interpreter raises RecursionError when they exceed its limit
Domain_find(ent, st, nest) ==
    IF nest > RecursionLimit THEN Res(ent, "RecursionError", << >>)
    ELSE IF validate(ent, "find").err # "ok" THEN Res(ent, "ValidationError", << >>)
    ELSE With(Dao_find_one(st, ent.cls, as_dto(ent), FALSE), LAMBDA r :
              IF r.err # "ok" THEN Res(ResolveForeignKeys(ent), r.err, r.ev)
              ELSE IF r.obj = << >> THEN Res(ResolveForeignKeys(ent), "ok", r.ev)
              ELSE With(encapsulate_nested(sync(ResolveForeignKeys(ent), r.obj[1]), 1, st, nest),
                        LAMBDA h : Res(h.ent, h.err, r.ev \o h.ev)))

\* d.encapsulate_nested() for every entity of a list, from the i-th on
HydratePass(ents, i, st) ==
    IF i > Len(ents) THEN [res |-> ents, err |-> "ok", ev |-> << >>]
    ELSE With(encapsulate_nested(ents[i], 1, st, 0), LAMBDA h :
         IF h.err # "ok" THEN [res |-> ents, err |-> h.err, ev |-> h.ev]
         ELSE With(HydratePass([ents EXCEPT ![i] = h.ent], i + 1, st), LAMBDA rest :
                   [res |-> rest.res, err |-> rest.err, ev |-> h.ev \o rest.ev]))

\* Domain.encapsulate(dto_list): a new entity per Dto, hydrated when the class
\* declares foreign keys
encapsulate(cls, dto_list, st) ==
    IF has_foreign_keys(cls)
    THEN HydratePass([i \in 1..Len(dto_list) |-> sync(New(cls, << >>), dto_list[i])], 1, st)
    ELSE [res |-> [i \in 1..Len(dto_list) |-> sync(New(cls, << >>), dto_list[i])],
          err |-> "ok", ev |-> << >>]

\* Domain.find_all(), behind @validate: encapsulate, then encapsulate_nested again
Domain_find_all(ent, st) ==
    IF validate(ent, "find_all").err # "ok"
    THEN [res |-> << >>, err |-> "ValidationError", ev |-> << >>]
    ELSE With(Dao_find_all(st, ent.cls, as_dto(ent)), LAMBDA r :
         IF r.err # "ok" THEN [res |-> << >>, err |-> r.err, ev |-> r.ev]
         ELSE With(encapsulate(ent.cls, r.results, st), LAMBDA first :
         IF first.err # "ok" THEN [res |-> << >>, err |-> first.err, ev |-> r.ev \o first.ev]
         ELSE With(HydratePass(first.res, 1, st), LAMBDA second :
                   [res |-> IF second.err = "ok" THEN second.res ELSE << >>,
                    err |-> second.err, ev |-> r.ev \o first.ev \o second.ev])))

Out(ent, err, cause, ev, st) == [ent |-> ent, err |-> err, cause |-> cause, ev |-> ev, st |-> st]

reload_dto_full(ent) == as_dto(ent)

\* the filter Domain.update reloads the row with: a fresh Dto carrying the id
reload_dto(ent) == [DtoNew(ent.cls) EXCEPT !["id"] = GetAttr(ent, "id")]

\* Domain.update after the UPDATE: reload, sync, hydrate, drop the *_id scalars
Reload(self, u) ==
    With(Dao_find_one(u.st, self.cls, reload_dto(self), TRUE), LAMBDA r :
         IF r.err # "ok" THEN Out(self, "UpdateOperationError", r.err, u.ev \o r.ev, u.st)
         ELSE With(encapsulate_nested(sync(self, r.obj[1]), 1, u.st, 0), LAMBDA h :
              IF h.err # "ok"
              THEN Out(h.ent, "UpdateOperationError", h.err, u.ev \o r.ev \o h.ev, u.st)
              ELSE Out(IF clean_nested_keys(self.cls) /\ has_foreign_keys(self.cls)
                       THEN cleanup_foreign_keys(h.ent) ELSE h.ent,
                       "ok", "", u.ev \o r.ev \o h.ev, u.st)))

\* Domain.update(), behind @validate; every exception of the body is re-raised
\* as UpdateOperationError carrying the message of the cause
Domain_update(ent, st) ==
    IF validate(ent, "update").err # "ok" THEN Out(ent, "ValidationError", "", << >>, st)
    ELSE With(Dao_update(st, ent.cls, as_dto(ent)), LAMBDA u :
              IF u.err # "ok"
              THEN Out(ResolveForeignKeys(ent), "UpdateOperationError", u.err, u.ev, u.st)
              ELSE Reload(ResolveForeignKeys(ent), u))

\* Domain.save after the existence check: insert unless a match was found,
\* then sync the Dto back and hydrate
Insert(self, dto, x, st) ==
    With(IF x.found THEN [err |-> "ok", dto |-> dto, st |-> st, ev |-> << >>]
         ELSE Dao_save(st, self.cls, dto), LAMBDA s :
         IF s.err # "ok" THEN Out(self, "SaveOperationError", s.err, x.ev \o s.ev, s.st)
         ELSE With(encapsulate_nested(sync(self, s.dto), 1, s.st, 0), LAMBDA h :
              IF h.err # "ok"
              THEN Out(h.ent, "SaveOperationError", h.err, x.ev \o s.ev \o h.ev, s.st)
              ELSE Out(h.ent, "ok", "", x.ev \o s.ev \o h.ev, s.st)))

\* Domain.save(allow_duplicates), behind @validate
Domain_save(ent, st, allow_duplicates) ==
    IF validate(ent, "save").err # "ok" THEN Out(ent, "ValidationError", "", << >>, st)
    ELSE With(IF allow_duplicates THEN [err |-> "ok", found |-> FALSE, ev |-> << >>]
              ELSE Dao_exists(st, ent.cls, as_dto(ent)), LAMBDA x :
              IF x.err # "ok"
              THEN Out(ResolveForeignKeys(ent), "SaveOperationError", x.err, x.ev, st)
              ELSE Insert(ResolveForeignKeys(ent), as_dto(ent), x, st))

PersistUpdate_raw(self, dto, ev, st) ==
    With(Dao_update(st, self.cls, dto), LAMBDA u :
         IF u.err # "ok" THEN Out(self, u.err, u.err, ev \o u.ev, u.st)
         ELSE Out(sync(self, dto), "ok", "", ev \o u.ev, u.st))

\* persist's update branch: self.__dao__.update(dto), then sync(dto)
PersistUpdate(self, dto, ev, st) ==
    With(Dao_update(st, self.cls, dto), LAMBDA u :
         IF u.err # "ok" THEN Out(self, "UpdateOperationError", u.err, ev \o u.ev, u.st)
         ELSE Out(sync(self, dto), "ok", "", ev \o u.ev, u.st))

\* persist's insert branch: self.__dao__.save(dto), then sync(dto)
PersistSave(self, dto, ev, st) ==
    With(Dao_save(st, self.cls, dto), LAMBDA s :
         IF s.err # "ok" THEN Out(self, "SaveOperationError", s.err, ev \o s.ev, s.st)
         ELSE Out(sync(self, s.dto), "ok", "", ev \o s.ev, s.st))

\* Domain.persist(allow_duplicates), behind @validate
Domain_persist(ent, st, allow_duplicates) ==
    IF validate(ent, "persist").err # "ok" THEN Out(ent, "ValidationError", "", << >>, st)
    ELSE IF Truthy(as_dto(ent)["id"])
    THEN PersistUpdate(ResolveForeignKeys(ent), as_dto(ent), << >>, st)
    ELSE IF ~allow_duplicates
    THEN With(Dao_find_one(st, ent.cls, as_dto(ent), FALSE), LAMBDA existing :
              IF existing.err # "ok"
              THEN Out(ResolveForeignKeys(ent), "SaveOperationError", existing.err,
                       existing.ev, st)
              ELSE IF existing.obj # << >>
              THEN PersistUpdate(ResolveForeignKeys(ent),
                                 [as_dto(ent) EXCEPT !["id"] = existing.obj[1]["id"]],
                                 existing.ev, st)
              ELSE PersistSave(ResolveForeignKeys(ent), as_dto(ent), existing.ev, st))
    ELSE PersistSave(ResolveForeignKeys(ent), as_dto(ent), << >>, st)

\* Domain.delete(): the test of self.id (AttributeError when id was never
\* assigned, ValueError when it is falsy), as_dto(), then self.get_dao(): Domain
\* has getdao but no attribute get_dao, so the lookup raises AttributeError
\* before any Dao is built
Domain_delete(ent, st) ==
    IF ent.attrs["id"] = Absent THEN Out(ent, "AttributeError", "", << >>, st)
    ELSE IF ~Truthy(ent.attrs["id"]) THEN Out(ent, "ValueError", "", << >>, st)
    ELSE With(as_dto(ent), LAMBDA dto : Out(ent, "AttributeError", "", << >>, st))

-----------------------------------------------------------------------------
(* The callers: what an application does with the library.  last records   *)
(* the latest call: its arguments, its outcome (err is "ok" or the name of  *)
(* the exception raised, cause the exception it wraps), the driver calls it *)
(* made and the store it started from.                                      *)

Idle == [op |-> "none", cls |-> "", kw |-> << >>, flag |-> FALSE, depth |-> 0,
         err |-> "ok", cause |-> "", ent |-> << >>, res |-> << >>, ev |-> << >>, pre |-> << >>]

NoProbe == [ent |-> << >>, rule |-> NoRule]

EmptyStore == [c \in Types |-> << >>]

\* keyword arguments: the entries of a total assignment that are not Absent
Partial(f) == [k \in {c \in DOMAIN f : f[c] # Absent} |-> f[k]]

\* the sparse entities a caller of the persistence specification builds
KwD == {Partial(f) : f \in [id : {Absent, "1", "2"}, name : {Absent, "x", "y"}]}

\* the entities persist() is called on: those of KwD and those with the id 0
KwP == KwD \cup {Partial(f) : f \in [id : {"0"}, name : {Absent, "x"}]}

Record(op, cls, kw, flag, err, cause, ent, res, ev) ==
    [op |-> op, cls |-> cls, kw |-> kw, flag |-> flag, depth |-> 0, err |-> err,
     cause |-> cause, ent |-> ent, res |-> res, ev |-> ev, pre |-> store]

\* entity = cls(**kw); entity.find()
Find(cls, kw) ==
    \E r \in {Domain_find(New(cls, kw), store, 0)} :
        /\ last' = Record("find", cls, kw, FALSE, r.err, "", << r.ent >>, << >>, r.ev)
        /\ UNCHANGED <<store, probe>>

\* cls(**kw).find_all()
FindAll(cls, kw) ==
    \E r \in {Domain_find_all(New(cls, kw), store)} :
        /\ last' = Record("find_all", cls, kw, FALSE, r.err, "", << >>, r.res, r.ev)
        /\ UNCHANGED <<store, probe>>

\* cls(**kw).save(allow_duplicates)
Save(cls, kw, allow_duplicates) ==
    /\ Len(store[cls]) < MaxRows
    /\ \E r \in {Domain_save(New(cls, kw), store, allow_duplicates)} :
        /\ last' = Record("save", cls, kw, allow_duplicates, r.err, r.cause,
                          << r.ent >>, << >>, r.ev)
        /\ store' = r.st
        /\ UNCHANGED probe

\* cls(**kw).update()
Update(cls, kw) ==
    \E r \in {Domain_update(New(cls, kw), store)} :
        /\ last' = Record("update", cls, kw, FALSE, r.err, r.cause, << r.ent >>, << >>, r.ev)
        /\ store' = r.st
        /\ UNCHANGED probe

\* cls(**kw).persist(allow_duplicates)
Persist(cls, kw, allow_duplicates) ==
    /\ Len(store[cls]) < MaxRows
    /\ \E r \in {Domain_persist(New(cls, kw), store, allow_duplicates)} :
        /\ last' = Record("persist", cls, kw, allow_duplicates, r.err, r.cause,
                          << r.ent >>, << >>, r.ev)
        /\ store' = r.st
        /\ UNCHANGED probe

\* Dao.find_one(Dto(**kw), raise_if_not_found), called on the access layer
FindOne(cls, kw, raise_if_not_found) ==
    \E r \in {Dao_find_one(store, cls, sync_with_dict(DtoNew(cls), kw), raise_if_not_found)} :
        /\ last' = Record("Dao.find_one", cls, kw, raise_if_not_found, r.err, "",
                          << >>, r.obj, r.ev)
        /\ UNCHANGED <<store, probe>>

\* Dao.update(Dto(**kw)), called on the access layer
DaoUpdate(cls, kw) ==
    \E r \in {Dao_update(store, cls, sync_with_dict(DtoNew(cls), kw))} :
        /\ last' = Record("Dao.update", cls, kw, FALSE, r.err, "", << >>, << >>, r.ev)
        /\ store' = r.st
        /\ UNCHANGED probe

\* Dao.exists(Dto(**kw)), called on the access layer; res holds the boolean
Exists(cls, kw) ==
    \E r \in {Dao_exists(store, cls, sync_with_dict(DtoNew(cls), kw))} :
        /\ last' = Record("Dao.exists", cls, kw, FALSE, r.err, "", << >>,
                          IF r.err # "ok" THEN << >>
                          ELSE IF r.found THEN << "True" >> ELSE << "False" >>, r.ev)
        /\ UNCHANGED <<store, probe>>

\* cls(**kw).delete(); res holds the boolean returned
Delete(cls, kw) ==
    \E r \in {Domain_delete(New(cls, kw), store)} :
        /\ last' = Record("delete", cls, kw, FALSE, r.err, r.cause, << r.ent >>, << >>, r.ev)
        /\ store' = r.st
        /\ UNCHANGED probe

Init == store = EmptyStore /\ last = Idle /\ probe = NoProbe

Next ==
    \/ \E kw \in KwD : Find("D", kw)
    \/ \E kw \in KwD : FindAll("D", kw)
    \/ \E kw \in KwD, allow_duplicates \in BOOLEAN : Save("D", kw, allow_duplicates)
    \/ \E kw \in KwD : Update("D", kw)
    \/ \E kw \in KwP, allow_duplicates \in BOOLEAN : Persist("D", kw, allow_duplicates)
    \/ \E kw \in KwD, raise_if_not_found \in BOOLEAN : FindOne("D", kw, raise_if_not_found)
    \/ \E kw \in KwD : DaoUpdate("D", kw)
    \/ \E kw \in KwD : Exists("D", kw)
    \/ \E kw \in KwP : Delete("D", kw)

\* the persistence specification: calls on the flat type D, from an empty store
Spec == Init /\ [][Next]_vars

-----------------------------------------------------------------------------
(* The hydration specification: a store holding HRows rows of each of A, B *)
(* and C, every foreign key NULL or the id of a row of the referenced      *)
(* table; the store is only read.                                          *)

HIds == {IdStr[i] : i \in 1..HRows}

RowOf(cls, id, ref) ==
    [c \in DtoFields(cls) |-> IF c = "id" THEN id ELSE IF c = "name" THEN "x" ELSE ref]

HTables(cls) ==
    {[i \in 1..HRows |-> RowOf(cls, IdStr[i], f[i])] : f \in [1..HRows -> {None} \cup HIds]}

HStores ==
    {[c \in Types |-> IF c = "A" THEN a ELSE IF c = "B" THEN b ELSE IF c = "C" THEN cc ELSE << >>] :
        a \in HTables("A"), b \in HTables("B"), cc \in HTables("C")}

\* the sparse entities a caller of the hydration specification builds
KwH(cls) ==
    {Partial([k \in {"id", foreign_keys(cls)[1].fk_field} |-> IF k = "id" THEN i ELSE f]) :
        i \in {Absent, "1"}, f \in {Absent, "1"}}

\* cls(**kw).encapsulate_nested(depth)
Encapsulate(cls, kw, depth) ==
    \E r \in {encapsulate_nested(New(cls, kw), depth, store, 0)} :
        /\ last' = [Record("encapsulate_nested", cls, kw, FALSE, r.err, "",
                           << r.ent >>, << >>, r.ev) EXCEPT !.depth = depth]
        /\ UNCHANGED <<store, probe>>

InitH == store \in HStores /\ last = Idle /\ probe = NoProbe

NextH ==
    \/ \E cls \in {"A", "B", "C"} : \E kw \in KwH(cls) : Find(cls, kw)
    \/ \E cls \in {"A", "B", "C"} : \E kw \in KwH(cls) : FindAll(cls, kw)
    \/ \E cls \in {"A", "B", "C"} : \E kw \in KwH(cls) : \E depth \in 0..MaxDepth :
            Encapsulate(cls, kw, depth)

SpecH == InitH /\ [][NextH]_vars

-----------------------------------------------------------------------------
(* The validation specification: ValidationObserver.validate as a function *)
(* of the entity and of the rule declared for the operation.               *)

\* the values a field of the probed entity takes; Absent: never set
ProbeValues == {Absent, None, "0", "False", "x"}

ProbeEntities ==
    {New("V", Partial(f)) : f \in [p : ProbeValues, q : ProbeValues, r : ProbeValues]}

ProbeRules ==
    [required : {<< >>, <<"p">>, <<"p", "r">>},
     required_any : {<< >>, <<"r">>, <<"q", "r">>},
     mutually_exclusive : {<< >>, << <<"p", "q">> >>,
                           << <<"p", "q">>, <<"q", "r">> >>,
                           << <<"q", "r">>, <<"p", "q">> >>}]

\* ValidationObserver.validate(probe.ent, op) where restrictions[op] is probe.rule
Validate ==
    \E v \in {ValidateRule(probe.ent, probe.rule)} :
        /\ last' = Record("validate", "V", << >>, FALSE, v.err, "",
                          << probe.ent >>, v.missing_fields, << >>)
        /\ UNCHANGED <<store, probe>>

InitV == store = EmptyStore /\ last = Idle /\ probe \in [ent : ProbeEntities, rule : ProbeRules]

NextV == Validate

SpecV == InitV /\ [][NextV]_vars

-----------------------------------------------------------------------------
(* The failure specification: the calls of the persistence specification on *)
(* a store whose driver changes condition between calls.                    *)

\* the most rows the table holds in the failure specification
FRows == 2

\* the entities and filters of the failure specification
KwF == {Partial(f) : f \in [id : {Absent, "1"}, name : {Absent, "x"}]}

\* the environment: the driver passes into another condition
SetDriver(d) ==
    /\ d # Driver(store)
    /\ store' = [store EXCEPT !["driver"] = d]
    /\ UNCHANGED <<last, probe>>

\* Dao.find_all(Dto(**kw)), called on the access layer
DaoFindAll(cls, kw) ==
    \E r \in {Dao_find_all(store, cls, sync_with_dict(DtoNew(cls), kw))} :
        /\ last' = Record("Dao.find_all", cls, kw, FALSE, r.err, "", << >>, r.results, r.ev)
        /\ UNCHANGED <<store, probe>>

\* Dao.list(), called on the access layer
DaoList(cls) ==
    \E r \in {Dao_list(store, cls)} :
        /\ last' = Record("Dao.list", cls, << >>, FALSE, r.err, r.cause, << >>, r.results, r.ev)
        /\ UNCHANGED <<store, probe>>

InitF ==
    /\ store = [c \in Types \cup {"driver"} |-> IF c = "driver" THEN "up" ELSE << >>]
    /\ last = Idle
    /\ probe = NoProbe

NextF ==
    \/ \E d \in Drivers : SetDriver(d)
    \/ \E kw \in KwF, allow_duplicates \in BOOLEAN :
          Len(store["D"]) < FRows /\ Save("D", kw, allow_duplicates)
    \/ \E kw \in KwF : Update("D", kw)
    \/ \E kw \in KwF, allow_duplicates \in BOOLEAN :
          Len(store["D"]) < FRows /\ Persist("D", kw, allow_duplicates)
    \/ \E kw \in KwF : DaoFindAll("D", kw)
    \/ DaoList("D")

SpecF == InitF /\ [][NextF]_vars

-----------------------------------------------------------------------------
(* The query specification: Dao.find_all and Dao.list on a drawn table of   *)
(* E; the store is only read.                                               *)

\* the most rows the table of E holds
QRows == 2

\* the tables of E: n rows with the ids 1..n and any name
QTables ==
    UNION {{[i \in 1..n |-> [id |-> IdStr[i], name |-> f[i]]] : f \in [1..n -> {None, "x", "y"}]} :
           n \in 0..QRows}

\* the filters: every field left out, None or assigned
KwE == {Partial(f) : f \in [id : {Absent, "1", "2"}, name : {Absent, None, "x", "y"},
                            tag : {Absent, "t"}]}

InitQ ==
    /\ store \in {[c \in Types |-> IF c = "E" THEN t ELSE << >>] : t \in QTables}
    /\ last = Idle
    /\ probe = NoProbe

NextQ ==
    \/ \E kw \in KwE : DaoFindAll("E", kw)
    \/ DaoList("E")

SpecQ == InitQ /\ [][NextQ]_vars

-----------------------------------------------------------------------------
(* The construction specification: an entity of A built from keyword        *)
(* arguments, by its constructor and by join, then turned into its Dto.     *)

\* the most keyword arguments of a construction
MaxArgs == 3

\* what a keyword of A can be given: plain values, or entities of B for b
ArgsOf(key) ==
    CASE key = "id" -> {Arg(key, v) : v \in {None, "0", "1"}}
      [] key = "name" -> {Arg(key, v) : v \in {None, "False", "x"}}
      [] key = "b_id" -> {Arg(key, v) : v \in {None, "0", "2"}}
      [] OTHER -> {ArgDomain(key, New("B", kw)) : kw \in {<< >>, [id |-> "1"], [id |-> "2"]}}

\* the keyword arguments of a call: distinct keys, in any order
ArgLists ==
    UNION {{a \in [1..n -> UNION {ArgsOf(k) : k \in {"id", "name", "b_id", "b"}}] :
                \A i, j \in 1..n : i # j => a[i].key # a[j].key} : n \in 0..MaxArgs}

\* e = A(**args[1..n]); e.join(**args[n+1..]); e.as_dto().columns(assigned_only=True)
Build(n) ==
    \E c \in {Domain_init("A", SubSeq(probe.args, 1, n))} :
    \E r \in {IF c.err # "ok" THEN c ELSE join(c.ent, SubSeq(probe.args, n + 1, Len(probe.args)), 1)} :
        /\ last' = Record("join", "A", probe.args, FALSE, r.err, "", << r.ent >>,
                          IF r.err # "ok" THEN << >> ELSE << columns(as_dto(r.ent), TRUE) >>,
                          << >>)
        /\ UNCHANGED <<store, probe>>

InitJ == store = EmptyStore /\ last = Idle /\ probe \in [args : ArgLists]

NextJ == \E n \in 0..MaxArgs : n <= Len(probe.args) /\ Build(n)

SpecJ == InitJ /\ [][NextJ]_vars

-----------------------------------------------------------------------------
(* The nested-list specification: hydration of P and Q, whose nested list   *)
(* items is read from the table of T; the store is only read.               *)

\* the most rows the table of T holds
NRows == 2

\* the tables of T: n rows with the ids 1..n, each referring to P and to Q or not
NTables ==
    UNION {{[i \in 1..n |-> [id |-> IdStr[i], name |-> "x", p_id |-> f[i][1], q_id |-> f[i][2]]] :
                f \in [1..n -> {None, "1"} \X {None, "1"}]} : n \in 0..NRows}

\* one row of P, one row of Q that refers to it or not, any table of T
NStores ==
    {[c \in Types |->
        IF c = "P" THEN << [id |-> "1", name |-> "x"] >>
        ELSE IF c = "Q" THEN << [id |-> "1", name |-> "x", p_id |-> ref] >>
        ELSE IF c = "T" THEN t
        ELSE << >>] : ref \in {None, "1"}, t \in NTables}

\* cls.encapsulate(dao.find_all()): the class method on the Dtos of every row
EncapsulateAll(cls) ==
    \E d \in {Dao_find_all(store, cls, DtoNew(cls))} :
    \E r \in {encapsulate(cls, d.results, store)} :
        /\ last' = Record("encapsulate", cls, << >>, FALSE, r.err, "", << >>, r.res,
                          d.ev \o r.ev)
        /\ UNCHANGED <<store, probe>>

InitN == store \in NStores /\ last = Idle /\ probe = NoProbe

NextN ==
    \/ \E cls \in {"P", "Q"}, kw \in {<< >>, [id |-> "1"], [id |-> "2"]} : Find(cls, kw)
    \/ \E cls \in {"P", "Q"}, kw \in {<< >>, [id |-> "1"], [id |-> "2"]} : FindAll(cls, kw)
    \/ \E cls \in {"P", "Q"} : EncapsulateAll(cls)

SpecN == InitN /\ [][NextN]_vars

-----------------------------------------------------------------------------
(* The template specification: Dao.joint_find on a drawn query template and *)
(* drawn parameters; the store is only read.                                *)

\* the most tokens of a query template
MaxTokens == 3

\* the tokens of a template: text, a comparison to null, or a placeholder
Tokens == {"SELECT 1", "= null"} \cup {Placeholder(k) : k \in {"a", "b"}}

Templates == UNION {[1..n -> Tokens] : n \in 0..MaxTokens}

\* dao.joint_find(probe.query, Dto of cls, **probe.params)
JointFind(cls) ==
    \E r \in {Dao_joint_find(store, cls, probe.query, probe.params)} :
        /\ last' = Record("Dao.joint_find", cls, probe, FALSE,
                          r.err, r.param_name, << >>, r.results, r.ev)
        /\ UNCHANGED <<store, probe>>

InitP ==
    /\ store = [c \in Types |-> IF c = "E" THEN << [id |-> "1", name |-> "x"] >> ELSE << >>]
    /\ last = Idle
    /\ probe \in [query : Templates, params : SUBSET Names]

NextP == JointFind("E")

SpecP == InitP /\ [][NextP]_vars

-----------------------------------------------------------------------------
(* The connection specification: one access-layer call at a time, followed  *)
(* through the driver step by step.  probe holds the Pgsql instance of the   *)
(* call (connection, cursor), the position of the call (pc), the driver      *)
(* calls still to make (plan) and what the call did so far: connections      *)
(* opened (connects) and closed (closes), statements executed (statements),  *)
(* whether a driver call found a connection already open (reused) and the    *)
(* exception in flight (raised, "" for none).                                *)

DaoOps == {"list", "find_all", "find_one", "save", "update", "joint_find"}

DriverCall(call, stmt) == [call |-> call, stmt |-> stmt]

DriverCallsSingle(op) ==
    IF op = "save" THEN << DriverCall("execute", "INSERT") >>
    ELSE IF op = "update" THEN << DriverCall("execute", "UPDATE") >>
    ELSE << DriverCall("execute", "SELECT") >>

\* the calls an access-layer operation makes on its Pgsql instance, in order:
\* list, find_all and find_one (through find_all) read the columns of the
\* table with db.columns and then run their SELECT with db.execute
DriverCalls(op) ==
    IF op \in {"list", "find_all", "find_one"}
    THEN << DriverCall("columns", "SCHEMA"), DriverCall("execute", "SELECT") >>
    ELSE IF op = "save" THEN << DriverCall("execute", "INSERT") >>
    ELSE IF op = "update" THEN << DriverCall("execute", "UPDATE") >>
    ELSE << DriverCall("execute", "SELECT") >>

Pgsql_disconnect_keeps(connection, close_fails) ==
    IF connection = "open" /\ close_fails THEN "open" ELSE "None"

\* Pgsql.disconnect(): connection.close() inside try, self.connection = None in
\* the finally clause, whether close() raised or not
Pgsql_disconnect(connection, close_fails) == "None"

\* what the except clauses of Pgsql.execute and Pgsql.columns raise for an
\* exception of the database library
Pgsql_raised(call, exc) ==
    IF call = "columns" THEN "QueryExecutionError"
    ELSE IF exc \in {"OperationalError", "InterfaceError"} THEN "ConnectionError"
    ELSE IF exc = "ProgrammingError" THEN "SqlSyntaxError"
    ELSE "QueryExecutionError"

\* what the access-layer operation raises for an exception of the driver: the
\* handlers of list and find_all name query, which is not bound while
\* db.columns runs; find_one wraps what is not a DaoError
Dao_raised(op, call) ==
    IF call = "columns"
    THEN (IF op = "find_one" THEN Reraised("UnboundLocalError") ELSE "UnboundLocalError")
    ELSE "QueryExecutionError"

\* what a failure to map the returned rows raises: the loop of list lies
\* inside its try block; save and update map nothing
Dao_mapping_raised(op) ==
    IF op = "list" THEN "QueryExecutionError"
    ELSE IF op \in {"save", "update"} THEN "ok"
    ELSE "DtoMappingError"

Resting == [op |-> "none", pc |-> "idle", plan |-> << >>, connection |-> "None",
            cursor |-> FALSE, raised |-> "", connects |-> 0, closes |-> 0,
            statements |-> 0, reused |-> FALSE]

\* a caller invokes an operation of the Dao: db = Pgsql() builds a driver with
\* connection None, or fails on its configuration (ConnectionError)
DaoCall(op) ==
    /\ probe.pc = "idle"
    /\ \E configured \in BOOLEAN :
        probe' = [Resting EXCEPT !.op = op,
                                 !.plan = IF configured THEN DriverCalls(op) ELSE << >>,
                                 !.raised = IF configured THEN "" ELSE "ConnectionError",
                                 !.pc = IF configured THEN "enter" ELSE "return"]
    /\ UNCHANGED <<store, last>>

\* the head of Pgsql.execute and Pgsql.columns: if not self.connection:
\* self.connect(), outside the try block
PgsqlEnter ==
    /\ probe.pc = "enter"
    /\ IF probe.connection # "None"
       THEN probe' = [probe EXCEPT !.reused = TRUE, !.pc = "run"]
       ELSE \E connected \in BOOLEAN :
               probe' = IF connected
                        THEN [probe EXCEPT !.connection = "open", !.connects = @ + 1,
                                           !.pc = "run"]
                        ELSE [probe EXCEPT !.raised = "ConnectionError", !.pc = "return"]
    /\ UNCHANGED <<store, last>>

\* cursor = self.connection.cursor(); cursor.execute(query) and the fetch
PgsqlRun ==
    /\ probe.pc = "run"
    /\ \E exc \in {"", "NoCursor", "OperationalError", "ProgrammingError", "DataError"} :
        probe' = IF exc = "NoCursor"
                 THEN [probe EXCEPT !.raised = Pgsql_raised(Head(probe.plan).call,
                                                            "InterfaceError"),
                                    !.pc = "finally"]
                 ELSE [probe EXCEPT !.cursor = TRUE, !.statements = @ + 1,
                                    !.raised = IF exc = "" THEN ""
                                               ELSE Pgsql_raised(Head(probe.plan).call, exc),
                                    !.pc = IF exc = "" /\ Head(probe.plan).stmt
                                                             \in {"INSERT", "UPDATE"}
                                           THEN "commit" ELSE "finally"]
    /\ UNCHANGED <<store, last>>

\* self.commit() after a writing statement: connection.commit() inside the try
PgsqlCommit ==
    /\ probe.pc = "commit"
    /\ \E committed \in BOOLEAN :
        probe' = [probe EXCEPT !.raised = IF committed THEN "" ELSE "QueryExecutionError",
                               !.pc = "finally"]
    /\ UNCHANGED <<store, last>>

\* the finally clause of Pgsql.execute and Pgsql.columns: cursor.close() and
\* self.disconnect(), whose failure replaces the exception in flight; then the
\* next driver call of the operation, or the end of its try block
PgsqlFinally ==
    /\ probe.pc = "finally"
    /\ \E close_fails \in BOOLEAN :
        probe' = [probe EXCEPT
                    !.cursor = FALSE,
                    !.connection = Pgsql_disconnect(probe.connection, close_fails),
                    !.closes = IF probe.connection = "open" THEN @ + 1 ELSE @,
                    !.raised = IF probe.connection = "open" /\ close_fails
                               THEN "ConnectionError" ELSE @,
                    !.plan = IF probe.raised = "" /\ ~(probe.connection = "open" /\ close_fails)
                             THEN Tail(@) ELSE @,
                    !.pc = IF /\ probe.raised = ""
                              /\ ~(probe.connection = "open" /\ close_fails)
                              /\ Len(probe.plan) > 1
                           THEN "enter" ELSE "return"]
    /\ UNCHANGED <<store, last>>

\* the end of the operation: the handlers of the Dao when the driver raised,
\* otherwise the mapping of the rows and the closing db.disconnect(); the
\* caller gets the result or the exception
DaoReturn ==
    /\ probe.pc = "return"
    /\ \E mapped \in BOOLEAN :
        /\ last' = Record("Dao." \o probe.op, "", << >>, FALSE,
                          IF probe.raised # "" /\ probe.connects = 0 /\ probe.plan = << >>
                          THEN "ConnectionError"
                          ELSE IF probe.raised # ""
                          THEN Dao_raised(probe.op, Head(probe.plan).call)
                          ELSE IF mapped THEN "ok" ELSE Dao_mapping_raised(probe.op),
                          probe.raised, << >>, << >>, << >>)
        /\ probe' = [probe EXCEPT
                        !.connection = IF /\ probe.raised = "" /\ mapped
                                          /\ probe.op \in {"list", "save", "update", "joint_find"}
                                       THEN Pgsql_disconnect(@, FALSE) ELSE @,
                        !.pc = "idle"]
    /\ UNCHANGED store

InitC == store = EmptyStore /\ last = Idle /\ probe = Resting

NextC ==
    \/ \E op \in DaoOps : DaoCall(op)
    \/ PgsqlEnter
    \/ PgsqlRun
    \/ PgsqlCommit
    \/ PgsqlFinally
    \/ DaoReturn

\* the connection specification
SpecC == InitC /\ [][NextC]_vars

-----------------------------------------------------------------------------
(* The logging specification: one thread of control issuing queries and      *)
(* hydrating.  probe.counter is _log_suppression_depth, probe.stack the      *)
(* hydration scopes that are open (the with blocks of encapsulate_nested     *)
(* entered and not left), each with the value the counter had before it was  *)
(* entered; probe.raising tells that an exception is unwinding the scopes,   *)
(* probe.unwound that the latest hydration ended by an exception.            *)
(* last is the latest call of log(): flag tells whether it printed, depth    *)
(* how many scopes were open around it.                                      *)

\* suppress_logs()
suppress_logs(counter) == counter > 0

\* log(query): returns before printing when logs are suppressed
log(counter) == ~suppress_logs(counter)

log_suppressed_exit_skipped(counter) == counter

log_suppressed_enter_skipped(counter) == counter

\* log_suppressed(): _log_suppression_depth += 1 before the body
log_suppressed_enter(counter) == counter + 1

\* log_suppressed(): _log_suppression_depth -= 1 in the finally clause
log_suppressed_exit(counter) == counter - 1

\* the types hydration queries from inside a scope opened on cls: the targets
\* of its foreign keys and of its nested lists
HydrationTargets(cls) ==
    {foreign_keys(cls)[i].domain_class : i \in 1..Len(foreign_keys(cls))}
        \cup {nested_lists(cls)[i].class : i \in 1..Len(nested_lists(cls))}

Scope(cls, depth, before) == [cls |-> cls, depth |-> depth, before |-> before]

\* the types the thread may turn to: any type at the top level, a target of
\* the innermost open scope during hydration
Reachable == IF probe.stack = << >> THEN Types
             ELSE HydrationTargets(probe.stack[Len(probe.stack)].cls)

Quiet == [counter |-> 0, stack |-> << >>, raising |-> FALSE, unwound |-> FALSE]

\* a Dao operation builds its statement and calls log(query): the user-facing
\* query when no scope is open, a query of hydration otherwise
LogQuery(cls) ==
    /\ ~probe.raising
    /\ cls \in Reachable
    /\ last' = [Record("log", cls, << >>, log(probe.counter), "ok", "", << >>, << >>, << >>)
                  EXCEPT !.depth = Len(probe.stack)]
    /\ UNCHANGED <<store, probe>>

\* encapsulate_nested(depth) on an entity of a type with foreign keys enters
\* with log_suppressed()
EnterScope(cls, depth) ==
    /\ ~probe.raising
    /\ cls \in Reachable
    /\ has_foreign_keys(cls)
    /\ Len(probe.stack) < RecursionLimit
    /\ probe' = [probe EXCEPT !.counter = log_suppressed_enter(@),
                              !.stack = Append(@, Scope(cls, depth, probe.counter)),
                              !.unwound = FALSE]
    /\ UNCHANGED <<store, last>>

\* the body of the innermost scope ends: the finally clause of log_suppressed
ExitScope ==
    /\ ~probe.raising
    /\ probe.stack # << >>
    /\ probe' = [probe EXCEPT !.counter = log_suppressed_exit(@),
                              !.stack = SubSeq(@, 1, Len(@) - 1)]
    /\ UNCHANGED <<store, last>>

\* a query of hydration fails, or the recursion limit is met: an exception
\* starts to unwind the open scopes
RaiseInScope ==
    /\ ~probe.raising
    /\ probe.stack # << >>
    /\ probe' = [probe EXCEPT !.raising = TRUE]
    /\ UNCHANGED <<store, last>>

\* the exception leaves the innermost scope through the finally clause of
\* log_suppressed; past the outermost scope it reaches the caller
Unwind ==
    /\ probe.raising
    /\ probe' = IF probe.stack = << >>
                THEN [probe EXCEPT !.raising = FALSE, !.unwound = TRUE]
                ELSE [probe EXCEPT !.counter = log_suppressed_exit(@),
                                   !.stack = SubSeq(@, 1, Len(@) - 1)]
    /\ UNCHANGED <<store, last>>

InitL == store = EmptyStore /\ last = Idle /\ probe = Quiet

NextL ==
    \/ \E cls \in Types : LogQuery(cls)
    \/ \E cls \in Types, depth \in 1..MaxDepth : EnterScope(cls, depth)
    \/ ExitScope
    \/ RaiseInScope
    \/ Unwind

\* the logging specification
SpecL == InitL /\ [][NextL]_vars

-----------------------------------------------------------------------------
(* The registry specification: two callers resolving class names through    *)
(* resolve_class_by_name.  probe.cache is _class_cache (NoClass for a name   *)
(* that is not a key); for each caller probe.pc is its position in the       *)
(* function, probe.name the name it resolves, probe.found the class its     *)
(* scan met and probe.ret the latest result it returned (scanned tells that  *)
(* the name was not in the cache when the caller tested it).                 *)

Callers == {"t1", "t2"}

ClassNames == {"A", "B", "Z"}

NoClass == "<none>"

\* the domain modules in the order pkgutil.walk_packages yields them, each
\* with the types dir(module) shows: domain.b imports the class A of domain.a,
\* domain.c defines another class named A; no module holds a class named Z
DomainModules ==
    << [modname |-> "domain.a", types |-> { [name |-> "A", obj |-> "domain.a.A"] }],
       [modname |-> "domain.b", types |-> { [name |-> "A", obj |-> "domain.a.A"],
                                            [name |-> "B", obj |-> "domain.b.B"] }],
       [modname |-> "domain.c", types |-> { [name |-> "A", obj |-> "domain.c.A"] }] >>

RECURSIVE ScanFrom(_, _)

\* the loop over the modules: the first type whose __name__ is class_name
ScanFrom(class_name, i) ==
    IF i > Len(DomainModules) THEN NoClass
    ELSE IF \E t \in DomainModules[i].types : t.name = class_name
    THEN (CHOOSE t \in DomainModules[i].types : t.name = class_name).obj
    ELSE ScanFrom(class_name, i + 1)

CacheKept(cache, class_name, obj) == cache

\* _class_cache[class_name] = obj
CacheSet(cache, class_name, obj) == [cache EXCEPT ![class_name] = obj]

NoReturn == [name |-> "", obj |-> NoClass, err |-> "ok", scanned |-> FALSE]

Unresolved == [cache |-> [n \in ClassNames |-> NoClass],
               pc |-> [c \in Callers |-> "idle"],
               name |-> [c \in Callers |-> ""],
               found |-> [c \in Callers |-> NoClass],
               ret |-> [c \in Callers |-> NoReturn]]

\* a caller enters resolve_class_by_name: a name in the cache is returned at
\* once, otherwise the caller goes on to scan the modules
Resolve(c, class_name) ==
    /\ probe.pc[c] = "idle"
    /\ probe' = IF probe.cache[class_name] # NoClass
                THEN [probe EXCEPT !.name[c] = class_name,
                                   !.ret[c] = [name |-> class_name,
                                               obj |-> probe.cache[class_name],
                                               err |-> "ok", scanned |-> FALSE]]
                ELSE [probe EXCEPT !.name[c] = class_name, !.pc[c] = "scan"]
    /\ UNCHANGED <<store, last>>

\* the caller walks the modules; without a hit it raises ImportError
ScanModules(c) ==
    /\ probe.pc[c] = "scan"
    /\ \E obj \in {ScanFrom(probe.name[c], 1)} :
        probe' = IF obj = NoClass
                 THEN [probe EXCEPT !.pc[c] = "idle",
                                    !.ret[c] = [name |-> probe.name[c], obj |-> NoClass,
                                                err |-> "ImportError", scanned |-> TRUE]]
                 ELSE [probe EXCEPT !.pc[c] = "store", !.found[c] = obj]
    /\ UNCHANGED <<store, last>>

\* the caller stores the class it found under the name and returns it
StoreAndReturn(c) ==
    /\ probe.pc[c] = "store"
    /\ probe' = [probe EXCEPT !.cache = CacheSet(@, probe.name[c], probe.found[c]),
                              !.pc[c] = "idle",
                              !.found[c] = NoClass,
                              !.ret[c] = [name |-> probe.name[c], obj |-> probe.found[c],
                                          err |-> "ok", scanned |-> TRUE]]
    /\ UNCHANGED <<store, last>>

InitR == store = EmptyStore /\ last = Idle /\ probe = Unresolved

NextR ==
    \/ \E c \in Callers, class_name \in ClassNames : Resolve(c, class_name)
    \/ \E c \in Callers : ScanModules(c)
    \/ \E c \in Callers : StoreAndReturn(c)

\* the registry specification
SpecR == InitR /\ [][NextR]_vars

-----------------------------------------------------------------------------
(* The reference specification: one row of each referring type, A and K     *)
(* pointing at B by id, R and U pointing at S by code, over a B table and   *)
(* an S table that may lack the row pointed at or, for S, hold several rows *)
(* with the code.                                                           *)

DRows == 2

Referrers == {"A", "K", "R", "U"}

Codes == {"x", "y"}

\* the tables of S: up to DRows rows, ids in order, any codes
STables ==
    UNION {{[i \in 1..n |-> [id |-> IdStr[i], name |-> "n", code |-> f[i]]] :
                f \in [1..n -> Codes]} : n \in 0..DRows}

BTables == {<< >>, << RowOf("B", "1", None) >>}

DStores ==
    {[c \in Types |->
        IF c = "S" THEN s
        ELSE IF c = "B" THEN b
        ELSE IF c \in {"A", "K"} THEN << RowOf(c, "1", bref) >>
        ELSE IF c \in {"R", "U"} THEN << RowOf(c, "1", sref) >>
        ELSE << >>] :
        s \in STables, b \in BTables, bref \in {None, "1", "2"}, sref \in {None} \cup Codes}

\* entity = cls(**kw).find(); entity.update(), nothing assigned in between
FindUpdate(cls, kw) ==
    \E f \in {Domain_find(New(cls, kw), store, 0)} :
        \E u \in {IF f.err = "ok" THEN Domain_update(f.ent, store)
                  ELSE Out(f.ent, f.err, "", << >>, store)} :
            /\ last' = Record("find_update", cls, kw, FALSE, u.err, u.cause, << u.ent >>,
                              << >>, f.ev \o u.ev)
            /\ store' = u.st
            /\ UNCHANGED probe

InitD == store \in DStores /\ last = Idle /\ probe = NoProbe

NextD ==
    \/ \E cls \in Referrers : Find(cls, [k \in {"id"} |-> "1"])
    \/ \E cls \in Referrers : FindUpdate(cls, [k \in {"id"} |-> "1"])

\* the reference specification
SpecD == InitD /\ [][NextD]_vars

-----------------------------------------------------------------------------
(* The insertion specification: entities of A, whose foreign key leads into *)
(* the chain A -> B -> C -> A, saved into the stores of the hydration       *)
(* specification.                                                           *)

\* the entities a caller saves: a name, and a reference to the first B or none
KwA == {Partial(f) : f \in [name : {"x", "y"}, b_id : {Absent, "1"}]}

InitS == store \in HStores /\ last = Idle /\ probe = NoProbe

NextS ==
    \/ \E kw \in KwA, allow_duplicates \in BOOLEAN : Save("A", kw, allow_duplicates)
    \/ \E kw \in KwA : Find("A", kw)

\* the insertion specification
SpecS == InitS /\ [][NextS]_vars

-----------------------------------------------------------------------------
(* The threads specification: two threads hydrating at the same time on the *)
(* one module-level counter.  _log_suppression_depth += 1 and -= 1 are each *)
(* a read of the global into the thread (probe.reg) followed by a write of  *)
(* the new value, and the other thread may run in between.  probe.pc is the *)
(* position of each thread, probe.done the scopes it has left, probe.torn   *)
(* tells that some write replaced a value other than the one read for it.   *)

MaxScopes == 2

Threads == {"t1", "t2"}

Calm == [counter |-> 0,
         pc |-> [t \in Threads |-> "idle"],
         reg |-> [t \in Threads |-> 0],
         done |-> [t \in Threads |-> 0],
         torn |-> FALSE]

\* with log_suppressed(), entering: the thread reads the counter
EnterRead(t) ==
    /\ probe.pc[t] = "idle"
    /\ probe.done[t] < MaxScopes
    /\ probe' = [probe EXCEPT !.reg[t] = probe.counter, !.pc[t] = "entering"]
    /\ UNCHANGED <<store, last>>

\* ... and writes the value it read, plus one
EnterWrite(t) ==
    /\ probe.pc[t] = "entering"
    /\ probe' = [probe EXCEPT !.counter = log_suppressed_enter(probe.reg[t]),
                              !.torn = @ \/ probe.reg[t] # probe.counter,
                              !.pc[t] = "body"]
    /\ UNCHANGED <<store, last>>

\* the finally clause of log_suppressed: the thread reads the counter
LeaveRead(t) ==
    /\ probe.pc[t] = "body"
    /\ probe' = [probe EXCEPT !.reg[t] = probe.counter, !.pc[t] = "leaving"]
    /\ UNCHANGED <<store, last>>

\* ... and writes the value it read, minus one
LeaveWrite(t) ==
    /\ probe.pc[t] = "leaving"
    /\ probe' = [probe EXCEPT !.counter = log_suppressed_exit(probe.reg[t]),
                              !.torn = @ \/ probe.reg[t] # probe.counter,
                              !.pc[t] = "idle",
                              !.done[t] = @ + 1]
    /\ UNCHANGED <<store, last>>

\* a thread outside every scope issues a query: log(query); last.depth is the
\* value of the counter the call met
TopLevelQuery(t) ==
    /\ probe.pc[t] = "idle"
    /\ last' = [Record("log", t, << >>, log(probe.counter), "ok", "", << >>, << >>, << >>)
                  EXCEPT !.depth = probe.counter]
    /\ UNCHANGED <<store, probe>>

InitT == store = EmptyStore /\ last = Idle /\ probe = Calm

NextT ==
    \/ \E t \in Threads : EnterRead(t)
    \/ \E t \in Threads : EnterWrite(t)
    \/ \E t \in Threads : LeaveRead(t)
    \/ \E t \in Threads : LeaveWrite(t)
    \/ \E t \in Threads : TopLevelQuery(t)

\* the threads specification
SpecT == InitT /\ [][NextT]_vars

-----------------------------------------------------------------------------
(* Properties of the persistence specification *)

ValidatedOps == {"find", "find_all", "save", "update", "persist"}

\* the entity the caller of the latest call built
Called == New(last.cls, last.kw)

\* the rows of a table whose columns equal every keyword the caller assigned
Matching(st, cls, kw) == {i \in 1..Len(st[cls]) : \A k \in DOMAIN kw : st[cls][i][k] = kw[k]}

Violates == /\ last.op \in ValidatedOps
            /\ ValidateRule(Called, restrictions(last.cls, last.op)).err # "ok"

\* C1: find, find_all, save, update and persist, called on an entity whose
\* attributes violate the restrictions declared for the operation, fail with a
\* validation error, make no driver call and leave the store as it was.
C1_ValidationBeforeIO ==
    Violates => (last.err = "ValidationError" /\ last.ev = << >> /\ store = last.pre)

C1_Witness ==
    /\ Violates /\ last.op = "save" /\ last.err = "ValidationError"
    /\ Len(store[last.cls]) > 0

SaveWithMatch ==
    /\ last.op = "save" /\ ~last.flag /\ ~Violates
    /\ Matching(last.pre, last.cls, last.kw) # {}

\* C4: save(allow_duplicates=False) on an entity whose assigned fields match at
\* least one stored row issues no INSERT and leaves the number of rows unchanged.
C4_SaveSkipsWhenMatchExists ==
    SaveWithMatch => /\ Statements(last.ev, "INSERT") = 0
                     /\ Len(store[last.cls]) = Len(last.pre[last.cls])

C4_Witness ==
    /\ SaveWithMatch
    /\ Cardinality(Matching(last.pre, last.cls, last.kw)) = 2
    /\ Statements(last.ev, "INSERT") = 1
    /\ Len(store[last.cls]) = Len(last.pre[last.cls]) + 1

\* C5: Dao.find_one by the number of matching rows: with two or more it returns
\* None and raises nothing, whatever raise_if_not_found; with exactly one it
\* returns that record; with none it returns None, or raises
\* RegisterNotFoundError when raise_if_not_found is set.
C5_FindOneByMatches ==
    last.op = "Dao.find_one" =>
        LET m == Matching(store, last.cls, last.kw)
        IN  /\ Cardinality(m) >= 2 => (last.err = "ok" /\ last.res = << >>)
            /\ Cardinality(m) = 1 =>
                    (last.err = "ok" /\ \A i \in m : last.res = << store[last.cls][i] >>)
            /\ m = {} => /\ last.res = << >>
                         /\ last.err = IF last.flag THEN "RegisterNotFoundError" ELSE "ok"

C5_Witness ==
    /\ last.op = "Dao.find_one" /\ last.flag /\ "name" \in DOMAIN last.kw
    /\ Cardinality(Matching(store, last.cls, last.kw)) >= 2
    /\ last.err = "ok" /\ last.res = << >>

\* the row an update of the caller's record must leave behind: every non-id
\* column holds the value of the record, NULL where the record holds None
Overwritten == [c \in DtoFields(last.cls) |-> IF c \in DOMAIN last.kw THEN last.kw[c] ELSE None]

\* C6: after a successful update of a record with id k, every non-id column of
\* stored row k equals the value the record holds for it (NULL for None), not
\* only the assigned ones, and every row with another id is unchanged.
C6_UpdateOverwritesEveryColumn ==
    (last.op \in {"Dao.update", "update"} /\ last.err = "ok") =>
        /\ Len(store[last.cls]) = Len(last.pre[last.cls])
        /\ \A i \in 1..Len(last.pre[last.cls]) :
                IF last.pre[last.cls][i]["id"] = last.kw["id"]
                THEN store[last.cls][i] = Overwritten
                ELSE store[last.cls][i] = last.pre[last.cls][i]

C6_Witness ==
    /\ last.op = "Dao.update" /\ last.err = "ok" /\ "name" \notin DOMAIN last.kw
    /\ \E i, j \in 1..Len(last.pre[last.cls]) :
            /\ last.pre[last.cls][i]["id"] = last.kw["id"]
            /\ last.pre[last.cls][i]["name"] # None
            /\ store[last.cls][i]["name"] = None
            /\ last.pre[last.cls][j]["id"] # last.kw["id"]

\* Domain.update ran its UPDATE and no row carries the id of the entity
ReloadMiss ==
    /\ last.op = "update" /\ Statements(last.ev, "UPDATE") = 1
    /\ \A i \in 1..Len(store[last.cls]) : store[last.cls][i]["id"] # last.kw["id"]

\* the reload of Domain.update is the last driver call: a SELECT by id alone
ReloadById ==
    /\ Len(last.ev) = 3
    /\ last.ev[3].stmt = "SELECT" /\ last.ev[3].where = {"id"}

\* C7 (as the code has it): when the UPDATE succeeds and the reload by id finds
\* nothing, update() fails with UpdateOperationError, which carries the message
\* of the RegisterNotFoundError the reload raised; the reload filters on the id
\* alone.
C7_ReloadMissIsUpdateOperationError ==
    ReloadMiss => /\ last.err = "UpdateOperationError"
                  /\ last.cause = "RegisterNotFoundError"
                  /\ ReloadById

\* C7 (as stated): when the UPDATE succeeds and the reload by id finds nothing,
\* update() fails with RegisterNotFoundError; the reload filters on the id alone.
C7_ReloadMissIsRegisterNotFoundError ==
    ReloadMiss => (last.err = "RegisterNotFoundError" /\ ReloadById)

C7_Witness ==
    /\ ReloadMiss /\ "name" \in DOMAIN last.kw /\ Len(store[last.cls]) > 0
    /\ last.err = "UpdateOperationError"

SaveWithoutMatch ==
    /\ last.op = "save" /\ last.err = "ok"
    /\ Matching(last.pre, last.cls, last.kw) = {}

\* the ids of the entities a find_all of the entity returns from the store
FoundIds(ent) ==
    {Domain_find_all(ent, store).res[i].attrs["id"] :
        i \in 1..Len(Domain_find_all(ent, store).res)}

-----------------------------------------------------------------------------
(* Properties of the hydration specification *)

\* find() on an A returned with a B attached
FoundAWithB ==
    /\ last.op = "find" /\ last.cls = "A" /\ last.err = "ok"
    /\ last.ent[1].nested["b"] # << >>

\* C2: A().find(), which hydrates with the default depth 1, attaches a B to the
\* A and leaves the c of that B unattached.
C2_DefaultDepthStopsAtB ==
    FoundAWithB => last.ent[1].nested["b"][1].nested["c"] = << >>

C2_Witness ==
    /\ FoundAWithB
    /\ last.ent[1].nested["b"][1].nested["c"] # << >>
    /\ last.ent[1].nested["b"][1].nested["c"][1].attrs["name"] = "x"

\* C3: find() and find_all() return after a number of queries the depth bounds,
\* whatever the store holds, cyclic references included: they never run into
\* the recursion limit of the interpreter.
C3_HydrationTerminates ==
    last.op \in {"find", "find_all"} => last.err # "RecursionError"

C3_Witness ==
    /\ last.op = "find" /\ last.cls = "A" /\ last.err = "RecursionError"
    /\ store["A"][1]["b_id"] = "1" /\ store["B"][1]["c_id"] = "1" /\ store["C"][1]["a_id"] = "1"

-----------------------------------------------------------------------------
(* Properties of the validation specification *)

\* the probed entity holds a value other than None for the field
IsSet(f) == probe.ent.attrs[f] \notin {None, Absent}

\* the declared groups with more than one member set, by position
ViolatedGroups ==
    {i \in 1..Len(probe.rule.mutually_exclusive) :
        Cardinality({f \in {"p", "q", "r"} :
            /\ \E j \in 1..Len(probe.rule.mutually_exclusive[i]) :
                    probe.rule.mutually_exclusive[i][j] = f
            /\ IsSet(f)}) > 1}

MissingRequired == {i \in 1..Len(probe.rule.required) : ~IsSet(probe.rule.required[i])}

AnyUnmet ==
    /\ probe.rule.required_any # << >>
    /\ \A i \in 1..Len(probe.rule.required_any) : ~IsSet(probe.rule.required_any[i])

\* C8: when a declared mutually_exclusive group has more than one member set,
\* validation fails with an error whose only entry names that group (the first
\* such group in declaration order), whether or not required or required_any
\* fields are missing as well.
C8_ExclusiveTakesPrecedence ==
    (last.op = "validate" /\ ViolatedGroups # {}) =>
        /\ last.err = "ValidationError"
        /\ Len(last.res) = 1
        /\ last.res[1].kind = "mutually exclusive violation"
        /\ \E i \in ViolatedGroups :
                /\ \A j \in ViolatedGroups : i <= j
                /\ last.res[1].fields = probe.rule.mutually_exclusive[i]

C8_Witness ==
    /\ last.op = "validate" /\ ViolatedGroups # {}
    /\ MissingRequired # {} /\ AnyUnmet
    /\ Len(last.res) = 1

\* C9: without a mutual-exclusion violation, validation fails exactly when a
\* required field is absent or None or a non-empty required_any list has no
\* member set; the error lists every missing required field, in order, followed
\* by one combined entry for the unmet required_any list; False and 0 count as
\* set; with no rule declared validation passes.
C9_MissingFieldsAreListed ==
    (last.op = "validate" /\ ViolatedGroups = {}) =>
        /\ last.err \in {"ok", "ValidationError"}
        /\ last.err = "ValidationError" <=> (MissingRequired # {} \/ AnyUnmet)
        /\ last.err = "ok" => last.res = << >>
        /\ last.err = "ValidationError" =>
                /\ Len(last.res) = Cardinality(MissingRequired) + (IF AnyUnmet THEN 1 ELSE 0)
                /\ \A i \in MissingRequired :
                        LET n == Cardinality({j \in MissingRequired : j <= i})
                        IN  last.res[n] = [kind |-> "missing",
                                           fields |-> << probe.rule.required[i] >>]
                /\ AnyUnmet => last.res[Len(last.res)] =
                                    [kind |-> "any of", fields |-> probe.rule.required_any]
        /\ probe.rule = NoRule => last.err = "ok"

C9_Witness ==
    /\ last.op = "validate" /\ ViolatedGroups = {}
    /\ probe.rule.required = <<"p", "r">> /\ probe.ent.attrs["p"] = "0"
    /\ probe.ent.attrs["r"] = Absent /\ AnyUnmet
    /\ Len(last.res) = 2

-----------------------------------------------------------------------------
(* Further properties of the persistence specification *)

SaveReturned == last.op = "save" /\ last.err = "ok"

\* the rows of the table that carry the id of the returned entity and agree
\* with every non-id field the caller assigned
RowsOfReturned ==
    {i \in 1..Len(store[last.cls]) :
        /\ store[last.cls][i]["id"] = last.ent[1].attrs["id"]
        /\ \A k \in DOMAIN last.kw \ {"id"} : store[last.cls][i][k] = last.kw[k]}

\* C11: after save() returns, the id of the entity is non-null and is the id of
\* a stored row that matches its assigned fields, whether a row was inserted
\* or the insertion was skipped because a matching row existed.
C11_SavedEntityCarriesId ==
    SaveReturned => (last.ent[1].attrs["id"] \notin {None, Absent} /\ RowsOfReturned # {})

C11_Witness ==
    /\ SaveReturned /\ ~last.flag
    /\ Cardinality(Matching(last.pre, last.cls, last.kw)) = 1
    /\ Statements(last.ev, "INSERT") = 0
    /\ last.ent[1].attrs["id"] = None

PersistReturned == last.op = "persist" /\ last.err = "ok"

\* the lookup of persist found a row: find_one answers only a single match
PersistFound == Cardinality(Matching(last.pre, last.cls, last.kw)) = 1

\* C12: a successful persist() issues exactly one INSERT or UPDATE: an UPDATE
\* of the row with the entity's id when the id is set; with the id unset and
\* allow_duplicates False an UPDATE of the row the lookup found, whose id the
\* entity adopts, or an INSERT when the lookup found none; with
\* allow_duplicates True and the id unset an INSERT.
C12_PersistDispatch ==
    PersistReturned =>
        /\ Statements(last.ev, "INSERT") + Statements(last.ev, "UPDATE") = 1
        /\ "id" \in DOMAIN last.kw =>
                /\ Statements(last.ev, "UPDATE") = 1
                /\ last.ent[1].attrs["id"] = last.kw["id"]
        /\ ("id" \notin DOMAIN last.kw /\ ~last.flag /\ PersistFound) =>
                /\ Statements(last.ev, "UPDATE") = 1
                /\ \A i \in Matching(last.pre, last.cls, last.kw) :
                        last.ent[1].attrs["id"] = last.pre[last.cls][i]["id"]
        /\ ("id" \notin DOMAIN last.kw /\ ~last.flag /\ ~PersistFound) =>
                Statements(last.ev, "INSERT") = 1
        /\ ("id" \notin DOMAIN last.kw /\ last.flag) => Statements(last.ev, "INSERT") = 1

C12_Witness ==
    /\ PersistReturned /\ last.flag
    /\ "id" \in DOMAIN last.kw /\ last.kw["id"] = "0"
    /\ Statements(last.ev, "INSERT") = 1 /\ Statements(last.ev, "UPDATE") = 0
    /\ Len(store[last.cls]) = Len(last.pre[last.cls]) + 1

-----------------------------------------------------------------------------
(* Properties of the failure specification.                                 *)

\* the body of save, update or persist raised
BodyFailed == /\ last.op \in {"save", "update", "persist"}
              /\ last.err \notin {"ok", "ValidationError"}

\* persist reaches its UPDATE: the entity carries a truthy id, or the lookup
\* succeeded and found one row
PersistUpdates ==
    \/ "id" \in DOMAIN last.kw /\ Truthy(last.kw["id"])
    \/ /\ "id" \notin DOMAIN last.kw
       /\ ~last.flag
       /\ Driver(last.pre) \in {"up", "write"}
       /\ PersistFound

Listed == last.op \in {"Dao.list", "Dao.find_all"}

\* C14: Dao.list() and Dao.find_all() fail with ConnectionError when the
\* store cannot be connected to, with QueryExecutionError when the statement
\* fails in execution, and with DtoMappingError when a returned row cannot
\* populate a Dto.
C14_FailureClassification ==
    Listed =>
        /\ Driver(last.pre) = "connect" => last.err = "ConnectionError"
        /\ Driver(last.pre) = "execute" => last.err = "QueryExecutionError"
        /\ (Driver(last.pre) = "map" /\ Matching(last.pre, last.cls, last.kw) # {})
              => last.err = "DtoMappingError"

C14_Witness ==
    /\ last.op = "Dao.find_all"
    /\ Driver(last.pre) = "connect"
    /\ last.err = "UnboundLocalError"
    /\ Len(last.ev) = 1
    /\ last.ev[1].call = "columns"

-----------------------------------------------------------------------------
(* Properties of the access layer, in the persistence specification.        *)

\* the latest call was Dao.exists(filter)
ExistsCalled == last.op = "Dao.exists"

\* C15: Dao.exists(filter) fails with DtoMissingAssignedFieldsError and
\* makes no driver call when the filter has no assigned field; otherwise it
\* returns True when a row matching the assigned fields is in the store and
\* False when none is.
C15_ExistsIffMatch ==
    ExistsCalled =>
        IF DOMAIN last.kw = {}
        THEN last.err = "DtoMissingAssignedFieldsError" /\ last.ev = << >>
        ELSE /\ last.err = "ok"
             /\ last.res = IF Matching(last.pre, last.cls, last.kw) # {}
                           THEN << "True" >> ELSE << "False" >>

C15_Witness ==
    /\ ExistsCalled
    /\ Cardinality(Matching(last.pre, last.cls, last.kw)) = 2
    /\ last.err = "ok"
    /\ last.res = << "False" >>

-----------------------------------------------------------------------------
(* Properties of the query specification.                                   *)

\* the rows of the table that agree with every assigned schema column of the
\* filter of the latest call
Agreeing ==
    SelectSeq(last.pre[last.cls], LAMBDA row :
        \A k \in DOMAIN last.kw :
            (last.kw[k] # None /\ k \in valid_columns(last.cls)) => row[k] = last.kw[k])

\* the ids of the Dtos the latest call returned, in order
ReturnedIds == [i \in 1..Len(last.res) |-> last.res[i]["id"]]

AgreeingIds == [i \in 1..Len(Agreeing) |-> Agreeing[i]["id"]]

\* Dao.find_all returned the agreeing rows, each with the values of its columns
FindAllSelects ==
    last.op = "Dao.find_all" =>
        /\ last.err = "ok"
        /\ ReturnedIds = AgreeingIds
        /\ \A i \in 1..Len(last.res) : last.res[i]["name"] = Agreeing[i]["name"]

\* Dao.list returned every row of the table
ListSelects ==
    last.op = "Dao.list" => last.err = "ok" /\ ReturnedIds = AgreeingIds

\* C16: Dao.find_all(filter) returns exactly the rows whose value equals the
\* filter's in every assigned field that is a column of the schema; None
\* fields and fields outside the schema restrict nothing; without a filter
\* every row is returned, and Dao.list() returns the same rows.
C16_FindAllFiltersOnAssignedColumns == FindAllSelects /\ ListSelects

C16_Witness ==
    /\ last.op = "Dao.list"
    /\ Len(last.pre[last.cls]) > 0
    /\ last.err = "QueryExecutionError"
    /\ last.cause = "DtoMappingError"
    /\ Statements(last.ev, "SELECT") = 1

\* find_all with a filter holding a None field and a field outside the schema
FindAllWitness ==
    /\ last.op = "Dao.find_all"
    /\ DOMAIN last.kw = {"id", "name", "tag"}
    /\ last.kw["name"] = None
    /\ Len(last.res) = 1
    /\ Len(last.pre[last.cls]) = 2

-----------------------------------------------------------------------------
(* Properties of the construction specification.                            *)

\* the latest call built an entity from plain values only
BuiltPlain ==
    /\ last.op = "join"
    /\ \A i \in 1..Len(last.kw) : last.kw[i].domain = << >>

\* the fields given a value other than None, with their values
Assigned ==
    [k \in {last.kw[i].key : i \in {j \in 1..Len(last.kw) : last.kw[j].plain # None}} |->
        (CHOOSE a \in {last.kw[i] : i \in 1..Len(last.kw)} : a.key = k).plain]

\* C17: for an entity whose fields were assigned in any order, the fields of
\* as_dto().columns(assigned_only=True) are exactly those given a value other
\* than None, False and 0 included, each with the value it was given.
C17_AssignedColumnsRoundTrip ==
    BuiltPlain => last.err = "ok" /\ last.res = << Assigned >>

C17_Witness ==
    /\ BuiltPlain
    /\ Len(last.kw) = 3
    /\ last.kw[1].key = "b_id" /\ last.kw[1].plain = "0"
    /\ last.kw[2].key = "name" /\ last.kw[2].plain = "False"
    /\ last.kw[3].key = "id" /\ last.kw[3].plain = None
    /\ last.res = << [b_id |-> "0", name |-> "False"] >>

\* the keyword arguments of the latest call that associate an entity through
\* a declared foreign key
Associating ==
    {i \in 1..Len(last.kw) : /\ last.kw[i].domain # << >>
                             /\ (last.kw[i].key \o "_id") \in FkFields(last.cls)}

\* the scalar <key>_id was not given a plain value of its own
OnlyAssociated(i) == \A j \in 1..Len(last.kw) : last.kw[j].key # last.kw[i].key \o "_id"

\* C18: after the constructor and join calls that associate an entity E
\* under x, where x_id is a declared foreign key, E is attached as self.x
\* and self.x_id equals E.id.
C18_JoinAttachesNested ==
    (last.op = "join" /\ last.err = "ok") =>
        \A i \in Associating :
            /\ last.ent[1].nested[last.kw[i].key] = last.kw[i].domain
            /\ OnlyAssociated(i) =>
                  last.ent[1].attrs[last.kw[i].key \o "_id"] = last.kw[i].domain[1].attrs["id"]

C18_Witness ==
    /\ last.op = "join"
    /\ last.err = "ok"
    /\ last.kw = << ArgDomain("b", New("B", [id |-> "1"])) >>
    /\ last.ent[1].attrs["b_id"] = "1"
    /\ last.ent[1].nested["b"] = << >>

-----------------------------------------------------------------------------
(* Properties of the nested-list specification.                             *)

\* the entities the latest call hydrated: the one find() loaded, or those
\* find_all() and encapsulate() returned
Hydrated ==
    IF last.err # "ok" THEN << >>
    ELSE IF last.op = "find"
    THEN (IF Cardinality(Matching(last.pre, last.cls, last.kw)) = 1 THEN last.ent ELSE << >>)
    ELSE IF last.op \in {"find_all", "encapsulate"} THEN last.res
    ELSE << >>

\* the ids of the rows of the related type whose back-reference is the id of e
Referring(e, nl) ==
    [i \in 1..Len(SelectSeq(last.pre[nl.class], LAMBDA row : row[nl.foreign_key] = e.attrs["id"])) |->
        SelectSeq(last.pre[nl.class], LAMBDA row : row[nl.foreign_key] = e.attrs["id"])[i]["id"]]

\* the nested list of e was computed and holds the entities of those rows
HoldsList(e, nl) ==
    /\ e.nested[nl.attr] # << >>
    /\ [i \in 1..Len(e.nested[nl.attr][1]) |-> e.nested[nl.attr][1][i].attrs["id"]] = Referring(e, nl)

ListsHydrated(classes) ==
    \A i \in 1..Len(Hydrated) :
        Hydrated[i].cls \in classes =>
            /\ \A j \in 1..Len(nested_lists(Hydrated[i].cls)) :
                   HoldsList(Hydrated[i], nested_lists(Hydrated[i].cls)[j])
            /\ \A j \in 1..Len(nested_lists(Hydrated[i].cls)) :
                   nested_lists(Hydrated[i].cls)[j].attr \notin DOMAIN as_dto(Hydrated[i])

\* C19: after find, find_all or encapsulate has hydrated an entity whose type
\* declares a nested list, the attribute holds the entities of the related
\* type whose back-reference equals the id of the entity, whether or not the
\* type declares foreign keys, and as_dto() does not carry the attribute.
C19_NestedListsHydrated == ListsHydrated({"P", "Q"})

C19_Witness ==
    /\ last.op = "find"
    /\ last.cls = "P"
    /\ last.err = "ok"
    /\ last.ent[1].attrs["name"] = "x"
    /\ \E i \in 1..Len(last.pre["T"]) : last.pre["T"][i]["p_id"] = "1"
    /\ last.ent[1].nested["items"] = << >>
    /\ Statements(last.ev, "SELECT") = 1

\* a type that declares foreign keys has its nested list hydrated
QListsHydrated == ListsHydrated({"Q"})

QListWitness ==
    /\ last.op = "find_all"
    /\ last.cls = "Q"
    /\ Len(last.res) = 1
    /\ last.res[1].nested["items"] # << >>
    /\ Len(last.res[1].nested["items"][1]) = 2

-----------------------------------------------------------------------------
(* Properties of the template specification.                                *)

\* the positions of the template of the latest call that hold a placeholder
\* no parameter of the call is named after
Unmet ==
    {i \in 1..Len(last.kw.query) :
        \E k \in Names \ last.kw.params : last.kw.query[i] = Placeholder(k)}

\* the statement the template stands for: every placeholder bound to its
\* parameter, comparisons to null written IS NULL
Bound ==
    [i \in 1..Len(last.kw.query) |->
        IF last.kw.query[i] = "= null" THEN "IS NULL"
        ELSE IF \E k \in Names : last.kw.query[i] = Placeholder(k)
        THEN PyFormat(CHOOSE k \in Names : last.kw.query[i] = Placeholder(k))
        ELSE last.kw.query[i]]

\* C20: Dao.joint_find fails with MissingParameterError naming the first
\* placeholder of the template, in the order of the text, that no parameter
\* matches, without any call to the driver; when every placeholder is
\* matched it executes the statement of the template, once.
C20_JointFindPlaceholders ==
    last.op = "Dao.joint_find" =>
        IF Unmet # {}
        THEN /\ last.err = "MissingParameterError"
             /\ Placeholder(last.cause) =
                    last.kw.query[CHOOSE i \in Unmet : \A j \in Unmet : i <= j]
             /\ last.ev = << >>
        ELSE /\ last.err = "ok"
             /\ Len(last.ev) = 1
             /\ last.ev[1].call = "execute"
             /\ last.ev[1].query = Bound

C20_Witness ==
    /\ last.op = "Dao.joint_find"
    /\ last.kw.query = << Placeholder("b"), Placeholder("a"), Placeholder("b") >>
    /\ last.kw.params = {"c"}
    /\ last.err = "MissingParameterError"
    /\ last.cause = "b"
    /\ last.ev = << >>

-----------------------------------------------------------------------------
(* Domain.delete *)

Deleting == last.op = "delete"

\* the rows of the store the call started from that carry the entity's id
DeleteTargets == {i \in 1..Len(last.pre[last.cls]) :
                     "id" \in DOMAIN last.kw /\ last.pre[last.cls][i]["id"] = last.kw["id"]}

\* C21: delete() on an entity whose id is unset raises the precondition error
\* (ValueError) with no driver call and the store as it was; on an entity whose
\* id is set it reaches the access layer: it ends without error, with a driver
\* call, and the row carrying that id is gone from the store
C21_DeleteDelegates ==
    Deleting =>
        IF "id" \in DOMAIN last.kw /\ Truthy(last.kw["id"])
        THEN /\ last.err = "ok"
             /\ last.ev # << >>
             /\ \A i \in 1..Len(store[last.cls]) : store[last.cls][i]["id"] # last.kw["id"]
        ELSE /\ last.err = "ValueError"
             /\ last.ev = << >>
             /\ store = last.pre

\* delete() called on an entity whose id is that of a stored row
C21_Witness ==
    /\ Deleting
    /\ "id" \in DOMAIN last.kw /\ Truthy(last.kw["id"])
    /\ DeleteTargets # {}

\* the part that holds: a falsy id (None or 0) raises ValueError, nothing is
\* sent to the driver and the store is as it was
DeleteWithoutId ==
    (Deleting /\ "id" \in DOMAIN last.kw /\ ~Truthy(last.kw["id"])) =>
        (last.err = "ValueError" /\ last.ev = << >> /\ store = last.pre)

\* what the code does with an id: AttributeError, and the row is still there
DeleteNeverDelegates ==
    (Deleting /\ "id" \in DOMAIN last.kw /\ Truthy(last.kw["id"])) =>
        (last.err = "AttributeError" /\ last.ev = << >> /\ store = last.pre)

-----------------------------------------------------------------------------
(* Properties of the connection specification *)

\* an access-layer call has ended, by a return or by an exception
Completed == probe.pc = "idle" /\ probe.op # "none"

\* ... and neither the driver nor the configuration failed during it
Smooth == Completed /\ probe.raised = ""

\* C22: every connection a call opens is opened on a fresh driver, carries at
\* most one statement and is closed before the call opens another or ends; a
\* call that meets no driver failure makes one such round for save, update and
\* joint_find, and two for list, find_all and find_one: the reading of the
\* table's columns, then the SELECT
C22_OneStatementPerConnection ==
    /\ ~probe.reused
    /\ probe.statements <= probe.connects
    /\ probe.connects = probe.closes + (IF probe.connection = "open" THEN 1 ELSE 0)
    /\ Smooth =>
          IF probe.op \in {"list", "find_all", "find_one"}
          THEN probe.connects = 2 /\ probe.statements = 2 /\ probe.closes = 2
          ELSE probe.connects = 1 /\ probe.statements = 1 /\ probe.closes = 1

\* the statement as the specification has it: one connection and exactly one
\* statement per call, for every operation
C22_OneStatementPerCall ==
    /\ ~probe.reused
    /\ Completed => probe.statements <= 1
    /\ Smooth => (probe.connects = 1 /\ probe.statements = 1 /\ probe.closes = 1)

\* find_all ended without failure after two statements on two connections
C22_Witness ==
    /\ Smooth
    /\ probe.op = "find_all"
    /\ probe.statements = 2
    /\ probe.connects = 2

\* C23: once an access-layer call has returned or raised, whatever failed during
\* it, the connection of its driver is None
C23_NoConnectionOutlivesCall == Completed => probe.connection = "None"

\* a call ended by the failure of connection.close(): the driver had connected
\* for db.columns, whose own failures are never ConnectionError
C23_Witness ==
    /\ Completed
    /\ probe.raised = "ConnectionError"
    /\ probe.connects = 1
    /\ probe.plan # << >>
    /\ Head(probe.plan).call = "columns"
    /\ probe.connection = "None"

-----------------------------------------------------------------------------
(* Properties of the logging specification *)

Logged == last.op = "log"

\* C24: in one thread of control the counter is the number of open hydration
\* scopes, never negative; every scope was entered at the counter value it will
\* leave behind; log() prints exactly when it is called with the counter at 0,
\* so a query of hydration is silent and a query outside every scope, before or
\* after a hydration that returned or raised, is printed
C24_CounterIsOpenScopes ==
    /\ probe.counter = Len(probe.stack)
    /\ probe.counter >= 0
    /\ \A i \in 1..Len(probe.stack) : probe.stack[i].before = i - 1
    /\ Logged => (last.flag <=> last.depth = 0)

\* a query printed at the top level after a hydration that raised has unwound
C24_Witness ==
    /\ Logged
    /\ last.flag
    /\ probe.unwound
    /\ probe.counter = 0
    /\ probe.stack = << >>
    /\ ~probe.raising

\* a query of hydration, silent inside two nested scopes
SilentInsideScopes == Logged /\ ~last.flag /\ last.depth = 2 /\ probe.counter = 2

-----------------------------------------------------------------------------
(* Properties of the registry specification *)

\* a name is a key of the cache
Cached(n) == probe.cache[n] # NoClass

\* the names the callers hold a result for
Returned(c) == probe.ret[c].err = "ok" /\ probe.ret[c].name # ""

\* C25: a class a caller obtained for a name is the class the cache holds for
\* that name, so two callers holding a result for one name hold the same class,
\* also when both resolved it while it was not cached; and an entry of the
\* cache, once set, is never removed nor given another class
C25_RegistryCacheIsStable ==
    /\ [](\A c \in Callers : Returned(c) => probe.ret[c].obj = probe.cache[probe.ret[c].name])
    /\ [][\A n \in ClassNames : Cached(n) => probe.cache'[n] = probe.cache[n]]_vars

\* both callers found A missing from the cache, scanned for it, and returned
C25_Witness ==
    /\ \A c \in Callers : /\ Returned(c)
                          /\ probe.ret[c].name = "A"
                          /\ probe.ret[c].scanned
                          /\ probe.pc[c] = "idle"
    /\ Cached("A")

\* two callers beyond the cache test for the same name at the same time
BothScanning == \A c \in Callers : probe.pc[c] = "store" /\ probe.name[c] = "A"

-----------------------------------------------------------------------------
(* Properties of the reference specification *)

\* find() loaded the row of a referring type
FoundReferrer == last.op = "find" /\ last.err = "ok" /\ last.cls \in Referrers

\* the row the call loaded, as the store held it
LoadedRow == last.pre[last.cls][1]

\* the rows of the related table a foreign key of the loaded row points at
Pointed(fk) ==
    {i \in 1..Len(last.pre[fk.domain_class]) :
        last.pre[fk.domain_class][i][fk.lookup_field] = LoadedRow[fk.fk_field]}

\* the entity attached under the nested attribute of a foreign key, if any
Attached(fk) == last.ent[1].nested[fk.nested_attr]

\* C26: an entity attached by hydration stands for the one row of the related
\* table whose lookup field equals the foreign key: it carries that row's
\* columns, and nothing is attached for a foreign key that no row or several
\* rows answer
C26_AttachedIsTheOneRow ==
    FoundReferrer =>
        \A i \in 1..Len(foreign_keys(last.cls)) :
            LET fk == foreign_keys(last.cls)[i]
            IN  Attached(fk) # << >> =>
                    /\ Cardinality(Pointed(fk)) = 1
                    /\ \A r \in Pointed(fk) :
                          \A c \in DOMAIN last.pre[fk.domain_class][r] :
                              Attached(fk)[1].attrs[c] = last.pre[fk.domain_class][r][c]

\* find() on the A whose b_id names no row of B
C26_Witness ==
    /\ FoundReferrer
    /\ last.cls = "A"
    /\ LoadedRow["b_id"] = "2"
    /\ Pointed(foreign_keys("A")[1]) = {}
    /\ Attached(foreign_keys("A")[1]) # << >>

\* what is attached for a foreign key that no row, or more than one, answers:
\* an entity never loaded, holding the lookup field alone
StubAttached ==
    FoundReferrer =>
        \A i \in 1..Len(foreign_keys(last.cls)) :
            LET fk == foreign_keys(last.cls)[i]
            IN  (LoadedRow[fk.fk_field] # None /\ Cardinality(Pointed(fk)) # 1) =>
                    /\ Attached(fk) # << >>
                    /\ \A c \in DOMAIN Attached(fk)[1].attrs :
                          Attached(fk)[1].attrs[c] =
                              IF c = fk.lookup_field THEN LoadedRow[fk.fk_field] ELSE Absent

\* ... and for a foreign key one row answers, that row
OneRowAttached ==
    FoundReferrer =>
        \A i \in 1..Len(foreign_keys(last.cls)) :
            LET fk == foreign_keys(last.cls)[i]
            IN  Cardinality(Pointed(fk)) = 1 =>
                    /\ Attached(fk) # << >>
                    /\ \A r \in Pointed(fk) :
                          Attached(fk)[1].attrs["id"] = last.pre[fk.domain_class][r]["id"]

\* C27: the record as_dto() builds from an entity find() loaded holds, for
\* every declared foreign key, the value of the loaded row
C27_AsDtoKeepsForeignKeys ==
    FoundReferrer =>
        \A i \in 1..Len(foreign_keys(last.cls)) :
            as_dto(last.ent[1])[foreign_keys(last.cls)[i].fk_field]
                = LoadedRow[foreign_keys(last.cls)[i].fk_field]

\* find() on the R whose owner_id is the code of exactly one S
C27_Witness ==
    /\ FoundReferrer
    /\ last.cls = "R"
    /\ LoadedRow["owner_id"] \in Codes
    /\ Cardinality(Pointed(foreign_keys("R")[1])) = 1
    /\ as_dto(last.ent[1])["owner_id"] # LoadedRow["owner_id"]

\* the part that holds: type-style declarations, with either setting of
\* clean_nested_keys
TypeStyleKeysKept ==
    (FoundReferrer /\ last.cls \in {"A", "K"}) =>
        as_dto(last.ent[1])["b_id"] = LoadedRow["b_id"]

\* find() then update() have both returned
RoundTrip == last.op = "find_update" /\ last.err = "ok"

\* C28: find() followed by update() with nothing assigned in between leaves
\* the store as it was
C28_FindUpdateKeepsRow == RoundTrip => store = last.pre

\* the round trip on the U whose caller_id is the code of exactly one S
C28_Witness ==
    /\ RoundTrip
    /\ last.cls = "U"
    /\ last.pre["U"][1]["caller_id"] \in Codes
    /\ Cardinality({i \in 1..Len(last.pre["S"]) :
                        last.pre["S"][i]["code"] = last.pre["U"][1]["caller_id"]}) = 1
    /\ store["U"][1]["caller_id"] # last.pre["U"][1]["caller_id"]

\* the part that holds: type-style declarations, with either setting of
\* clean_nested_keys
TypeStyleRoundTrip == (RoundTrip /\ last.cls \in {"A", "K"}) => store = last.pre

\* the round trip on the R whose owner_id is the code of one S writes the id
\* of that S into owner_id
OwnerOverwritten ==
    /\ RoundTrip
    /\ last.cls = "R"
    /\ last.pre["R"][1]["owner_id"] = "x"
    /\ store["R"][1]["owner_id"] \in Ids

-----------------------------------------------------------------------------
(* Properties of the insertion specification *)

SaveFailed == last.op = "save" /\ last.err = "SaveOperationError"

\* C29: when save() raises SaveOperationError the store holds the rows it held
\* before the call: no INSERT of the call was committed
C29_FailedSaveInsertsNothing == SaveFailed => store = last.pre

\* save() raised after its INSERT: the hydration of the saved entity ran into
\* the recursion limit, and the table holds one row more than before
C29_Witness ==
    /\ SaveFailed
    /\ last.cause = "RecursionError"
    /\ Statements(last.ev, "INSERT") = 1
    /\ Len(store["A"]) = Len(last.pre["A"]) + 1

\* a save() that fails leaves at most the one inserted row behind
FailedSaveInsertsAtMostOne ==
    SaveFailed => (store = last.pre \/ Len(store["A"]) = Len(last.pre["A"]) + 1)

-----------------------------------------------------------------------------
(* Properties of the threads specification *)

\* no thread is inside a scope, entering or leaving one
AllOutside == \A t \in Threads : probe.pc[t] = "idle"

\* the scopes that are open or being left
OpenScopes == Cardinality({t \in Threads : probe.pc[t] \in {"body", "leaving"}})

\* C30: with two threads on the shared counter, the counter is restored only
\* while no write has replaced a value other than the one read for it: then it
\* is 0 whenever both threads are outside their scopes and never negative.
\* After such a write it stays within the number of scopes run, of either
\* sign; log() prints exactly when the counter it reads is not positive
C30_CounterRestoredUnlessTorn ==
    /\ ~probe.torn => (probe.counter >= 0 /\ (AllOutside => probe.counter = 0))
    /\ probe.counter \in (0 - 2 * MaxScopes)..(2 * MaxScopes)
    /\ last.op = "log" => (last.flag <=> last.depth <= 0)

\* the statement without its condition: never negative, and 0 again once both
\* threads have left their scopes
C30_CounterNeverNegativeAndRestored ==
    /\ probe.counter >= 0
    /\ AllOutside => probe.counter = 0

\* both threads have left their scopes, the counter is positive, and the query
\* a thread then issued at the top level was not printed
C30_Witness ==
    /\ AllOutside
    /\ \A t \in Threads : probe.done[t] >= 1
    /\ probe.torn
    /\ probe.counter > 0
    /\ last.op = "log" /\ ~last.flag /\ last.depth = probe.counter

\* the counter below zero with both threads outside their scopes
CounterNegative == AllOutside /\ probe.counter < 0

====
